---- MODULE Spec2Model ----
\* A model of src/index.ts of pi-agentic-compaction: the bounded-concurrency
\* runner mapWithConcurrency, the tool execution built on it, the agent
\* loop runAgentLoop, the model selection selectCompactionModel, the
\* detection of file operations detectFileOpsFromConversation with the file
\* context built from it, the classification of temporary paths, the user's
\* compaction note and the session_before_compact handler.
\*
\* Specifications
\*   SpecMap      mapWithConcurrency called once on its own
\*   SpecMapLive  SpecMap under the scheduling of the event loop
\*   Spec         runAgentLoop, with executeToolCalls inside it
\*   SpecLive     Spec under the scheduling of the event loop
\*   SpecTool     executeToolCalls and executeSingleToolCall called on their own
\*   SpecSnapshot executeSingleToolCall called several times on one bashFiles
\*   SpecSelect   selectCompactionModel called once
\*   SpecFileOps  detectFileOpsFromConversation called on a conversation, again
\*                on the same and on a longer one, and buildFileOpsContext
\*   SpecTemp     isLikelyTempArtifactPath called once
\*   SpecNote     extractUserCompactionNote and getUserCompactionNote called once
\*   SpecCompact  the session_before_compact handler, with selectCompactionModel
\*                and runAgentLoop inside it
\*
\* Conventions
\*   - A JavaScript number is held in halves: the model's integer h stands for
\*     the number h/2, so that 0.5, 1.5, 2.5 ... are values (Num embeds an
\*     integer). NaN and the infinities are outside the modelled numbers.
\*   - A JavaScript string is a sequence of one-character strings.
\*   - Array indices are the code's (0-based); a TLA+ sequence holds index i at
\*     position i + 1.
\*   - One action is one synchronous run of the code between two awaits.
EXTENDS Integers, Sequences, FiniteSets, TLC

VARIABLES
    CONFIG,                 \* the module constant CONFIG = loadConfig()
    items,                  \* mapWithConcurrency: its parameter items
    concurrency,            \* mapWithConcurrency: its parameter concurrency (halves)
    mapper,                 \* mapWithConcurrency: which mapper it was given
    effectiveConcurrency,   \* mapWithConcurrency: the local of that name
    results,                \* mapWithConcurrency: the local array results
    nextIndex,              \* mapWithConcurrency: the shared cursor
    workers,                \* the promises of the worker() calls and their currentIndex
    calls,                  \* the mapper invocations, in the order they started
    writes,                 \* history: the assignments to results[...], in order
    rejections,             \* the reasons of the rejected workers, in order
    mwc,                    \* the promise mapWithConcurrency returned
    notifications,          \* what notifyFn was called with, in order
    signal,                 \* runAgentLoop: signal.aborted
    pc,                     \* runAgentLoop: where the loop stands
    messages,               \* runAgentLoop: the local messages (the transcript)
    trajectory,             \* runAgentLoop: the local trajectory
    toolCalls,              \* runAgentLoop: the tool calls of the current turn
    responses,              \* history: the contents of the responses received
    requests,               \* history: the completion requests issued, in order
    completing,             \* the number of completion requests in flight
    outcome,                \* the promise runAgentLoop returned
    toolCall,               \* executeSingleToolCall: its parameter tc
    single,                 \* the promise executeSingleToolCall returned
    bashFiles,              \* the object bashFiles of a compaction
    shells,                 \* history: the shells built for the tool calls, in order
    modelRegistry,          \* selectCompactionModel: its parameter modelRegistry
    sessionModel,           \* selectCompactionModel: its parameter sessionModel
    selection,              \* the promise selectCompactionModel returned
    llmMessages,            \* detectFileOpsFromConversation: its parameter
    fileOps,                \* what detectFileOpsFromConversation returned
    filePath,               \* isLikelyTempArtifactPath: its parameter filePath
    tempLike,               \* what isLikelyTempArtifactPath returned
    customInstructions,     \* getUserCompactionNote: its parameter customInstructions
    note,                   \* what the extraction of the user's note returned
    fileOpsContext,         \* what buildFileOpsContext returned
    event,                  \* handleCompaction: its parameter event
    handler                 \* handleCompaction: where it stands, what it returned

poolVars == <<items, concurrency, mapper, effectiveConcurrency, results, nextIndex,
              workers, calls, writes, rejections, mwc>>
loopVars == <<signal, pc, messages, trajectory, toolCalls, responses, requests,
              completing, outcome>>
toolVars == <<toolCall, single, bashFiles, shells>>
selectVars == <<modelRegistry, sessionModel, selection>>
fileOpsVars == <<llmMessages, fileOps>>
tempVars == <<filePath, tempLike>>
noteVars == <<customInstructions, note>>
contextVars == <<fileOpsContext>>
handlerVars == <<event, handler>>
laterVars == <<tempVars, noteVars, contextVars, handlerVars>>
otherVars == <<toolVars, selectVars, fileOpsVars, laterVars>>
vars == <<CONFIG, poolVars, notifications, loopVars, otherVars>>

----------------------------------------------------------------------------
\* Bounds of the model.

MaxItems == 3               \* items.length of a direct mapWithConcurrency call
MaxItemValue == 2           \* the items are numbers 1..MaxItemValue
MaxConcurrencyHalves == 7   \* the largest concurrency tried is 7/2 = 3.5
MaxNegativeHalves == 2      \* the smallest concurrency tried is -2/2 = -1
MaxCalls == 2               \* tool-call blocks in one response
MaxRequests == 2            \* completion requests in one run of the loop
MaxCandidates == 2          \* entries of compactionModels in config.json
MaxRegistry == 2            \* models the registry holds
MaxMessages == 3            \* messages of a conversation given to the detection
MaxDirs == 1                \* directories of a path given to the classification
MaxShells == 3              \* tool calls run on one bashFiles object

----------------------------------------------------------------------------
\* Values.

Undefined == [undefined |-> TRUE]

Num(n) == 2 * n

MathFloor(h) == h \div 2

Max(a, b) == IF a >= b THEN a ELSE b

Min(a, b) == IF a <= b THEN a ELSE b

Range(s) == {s[k] : k \in DOMAIN s}

SeqsUpTo(S, n) == UNION {[1..k -> S] : k \in 0..n}

RECURSIVE Concat(_)
Concat(ss) == IF ss = <<>> THEN <<>> ELSE Head(ss) \o Concat(Tail(ss))

RECURSIVE Join(_, _)
Join(ss, sep) ==
    IF ss = <<>> THEN <<>>
    ELSE IF Len(ss) = 1 THEN ss[1]
    ELSE ss[1] \o sep \o Join(Tail(ss), sep)

Slice(s, n) == SubSeq(s, 1, Min(Len(s), Max(n, 0)))

WhiteSpace == {" ", "\n", "\t"}

RECURSIVE TrimStart(_)
TrimStart(s) ==
    IF s # <<>> /\ Head(s) \in WhiteSpace THEN TrimStart(Tail(s)) ELSE s

RECURSIVE TrimEnd(_)
TrimEnd(s) ==
    IF s # <<>> /\ s[Len(s)] \in WhiteSpace
    THEN TrimEnd(SubSeq(s, 1, Len(s) - 1))
    ELSE s

Trim(s) == TrimEnd(TrimStart(s))

SelectBlocks(content, type) == SelectSeq(content, LAMBDA b : b.type = type)

----------------------------------------------------------------------------
\* Configuration (CONFIGURATION section of src/index.ts).

DefaultToolResultMaxChars == 50000

DefaultToolCallPreviewChars == 60

DefaultToolCallConcurrency == 6

DefaultMinSummaryChars == 100

\* A value read from config.json: a number (in halves) or anything else.
NumberValue(h) == [type |-> "number", h |-> h]

NoValue == [type |-> "undefined", h |-> 0]

\* parsePositiveNumber: the number itself (halves) when it is positive.
parsePositiveNumber(value, defaultValue) ==
    IF value.type = "number" /\ value.h > 0 THEN value.h ELSE defaultValue

\* parsePositiveInt: Math.floor of a positive number, else the default. The
\* result is an integer, held as such.
parsePositiveInt(value, defaultValue) ==
    IF value.type = "number" /\ value.h > 0
    THEN MathFloor(value.h)
    ELSE defaultValue

\* A string value, or a value that is no string.
StringValue(chars) == [type |-> "string", chars |-> chars]

NoString == [type |-> "undefined", chars |-> <<>>]

\* The thinking levels the model uses, of VALID_THINKING_LEVELS.
VALID_THINKING_LEVELS ==
    {<<"o", "f", "f">>, <<"l", "o", "w">>, <<"h", "i", "g", "h">>}

ToLowerCase(s) ==
    [k \in DOMAIN s |-> CASE s[k] = "L" -> "l" [] s[k] = "H" -> "h"
                           [] s[k] = "T" -> "t" [] s[k] = "M" -> "m"
                           [] s[k] = "P" -> "p" [] s[k] = "C" -> "c"
                           [] s[k] = "O" -> "o" [] s[k] = "A" -> "a"
                           [] OTHER -> s[k]]

\* normalizeThinkingLevel: a valid level in lower case and trimmed, or
\* undefined.
normalizeThinkingLevel(value) ==
    IF value.type # "string" THEN NoString
    ELSE LET lower == Trim(ToLowerCase(value.chars))
         IN IF lower \in VALID_THINKING_LEVELS THEN StringValue(lower) ELSE NoString

\* a ?? b
Coalesce(a, b) == IF a.type = "undefined" THEN b ELSE a

isValidModelConfig(m) == m.provider.type = "string" /\ m.id.type = "string"

CompactionModelConfig(provider, id, thinkingLevel) ==
    [provider |-> provider, id |-> id, thinkingLevel |-> thinkingLevel]

DefaultCompactionModels ==
    <<CompactionModelConfig(<<"c">>, <<"q">>, NoString),
      CompactionModelConfig(<<"a">>, <<"h">>, NoString)>>

DefaultThinkingLevel == <<"o", "f", "f">>

\* A value read from config.json that is an array, or anything else.
ArrayValue(elems) == [type |-> "array", elems |-> elems]

NoArray == [type |-> "undefined", elems |-> <<>>]

\* parseCompactionModels: the valid entries, their thinking level normalised.
parseCompactionModels(models) ==
    IF models.type # "array" THEN DefaultCompactionModels
    ELSE LET valid == SelectSeq(models.elems, isValidModelConfig)
         IN [k \in DOMAIN valid |->
                CompactionModelConfig(valid[k].provider.chars, valid[k].id.chars,
                                      normalizeThinkingLevel(valid[k].thinkingLevel))]

\* loadConfig, for the fields the model reads.
loadConfig(parsed) ==
    [compactionModels |-> parseCompactionModels(parsed.compactionModels),
     thinkingLevel |->
         Coalesce(normalizeThinkingLevel(parsed.thinkingLevel),
                  StringValue(DefaultThinkingLevel)).chars,
     toolResultMaxChars |->
         parsePositiveNumber(parsed.toolResultMaxChars, Num(DefaultToolResultMaxChars)),
     toolCallPreviewChars |->
         parsePositiveNumber(parsed.toolCallPreviewChars, Num(DefaultToolCallPreviewChars)),
     toolCallConcurrency |->
         parsePositiveInt(parsed.toolCallConcurrency, DefaultToolCallConcurrency),
     minSummaryChars |->
         parsePositiveNumber(parsed.minSummaryChars, Num(DefaultMinSummaryChars))]

\* A config.json that sets nothing.
EmptyParsed ==
    [compactionModels |-> NoArray, thinkingLevel |-> NoString,
     toolResultMaxChars |-> NoValue, toolCallPreviewChars |-> NoValue,
     toolCallConcurrency |-> NoValue, minSummaryChars |-> NoValue]

DEFAULT_CONFIG == loadConfig(EmptyParsed)

\* The values of toolCallConcurrency tried in config.json: absent, 0.5, 2.5.
RawToolCallConcurrency == {NoValue, NumberValue(1), NumberValue(5)}

ParsedConfigs ==
    {[EmptyParsed EXCEPT !.toolCallConcurrency = c] : c \in RawToolCallConcurrency}

----------------------------------------------------------------------------
\* Tool calls and their execution (TOOL EXECUTION section).

Arguments(command) == [type |-> "object", command |-> command]

ToolCallContent(id, name, arguments) ==
    [type |-> "toolCall", id |-> id, name |-> name, arguments |-> arguments]

TextContent(text) == [type |-> "text", text |-> text]

\* String.prototype.slice(0, n) for a number n > 0 held in halves: n is
\* truncated to an integer.
SliceTo(s, h) == Slice(s, h \div 2)

ExitCodeText(n) == <<CASE n = 0 -> "0" [] n = 1 -> "1" [] OTHER -> "2">>

\* What bash.exec can do: settle with {stdout, stderr, exitCode} or throw.
ExecOutcomes ==
    {[kind |-> "exit", stdout |-> <<"o", "k">>, stderr |-> <<>>, exitCode |-> 0],
     [kind |-> "exit", stdout |-> <<>>, stderr |-> <<"n", "o">>, exitCode |-> 1],
     [kind |-> "throw", message |-> <<"b", "a", "d">>]}

\* executeSingleToolCall, from the settlement r of bash.exec to its result.
executeSingleToolCall(r) ==
    IF r.kind = "exit"
    THEN LET out == r.stdout \o
                    (IF r.stderr # <<>>
                     THEN <<"\n", "s", "t", "d", "e", "r", "r", ":", " ">> \o r.stderr
                     ELSE <<>>)
             marked == IF r.exitCode # 0
                       THEN out \o <<"\n", "e", "x", "i", "t", " ", "c", "o", "d", "e",
                                     ":", " ">> \o ExitCodeText(r.exitCode)
                       ELSE out
         IN [result |-> SliceTo(marked, CONFIG.toolResultMaxChars),
             isError |-> r.exitCode # 0]
    ELSE [result |-> <<"E", "r", "r", "o", "r", ":", " ">> \o r.message,
          isError |-> TRUE]

----------------------------------------------------------------------------
\* The mappers mapWithConcurrency is given: two of the tests' mappers
\* ("double": x => x * 2, "index": (x, i) => i) and the mapper of
\* executeToolCalls ("tool").

MapperFn(m, item, index) ==
    IF m = "double" THEN [value |-> item * 2] ELSE [value |-> index]

\* Whether the synchronous part of the mapper throws. The mapper of
\* executeToolCalls destructures tc.arguments and calls command.slice before
\* anything else: both throw a TypeError on a value that is no object, or no
\* string.
MapperThrows(m, item) ==
    /\ m = "tool"
    /\ \/ item.arguments.type # "object"
       \/ item.arguments.command.type # "string"

MapperError(m, index) ==
    [error |-> IF m = "tool" THEN "TypeError" ELSE "mapper", index |-> index]

NoError == [error |-> "none", index |-> -1]

\* The ellipsis appended from the limit on, not beyond it: a mutant.
MapperNotifyEllipsisAtLimit(m, item) ==
    IF m = "tool" /\ ~MapperThrows(m, item)
    THEN LET command == item.arguments.command.chars
         IN <<[level |-> "info", name |-> item.name,
               preview |-> SliceTo(command, CONFIG.toolCallPreviewChars),
               suffix |-> IF Num(Len(command)) >= CONFIG.toolCallPreviewChars
                          THEN <<".", ".", ".">> ELSE <<>>]>>
    ELSE <<>>

\* The notification the mapper of executeToolCalls emits before the call.
MapperNotify(m, item) ==
    IF m = "tool" /\ ~MapperThrows(m, item)
    THEN LET command == item.arguments.command.chars
         IN <<[level |-> "info", name |-> item.name,
               preview |-> SliceTo(command, CONFIG.toolCallPreviewChars),
               suffix |-> IF Num(Len(command)) > CONFIG.toolCallPreviewChars
                          THEN <<".", ".", ".">> ELSE <<>>]>>
    ELSE <<>>

----------------------------------------------------------------------------
\* mapWithConcurrency.

\* effectiveConcurrency without the lower bound: a mutant.
EffectiveConcurrencyUnclamped(c) == MathFloor(c)

\* effectiveConcurrency rounding up: a mutant.
EffectiveConcurrencyCeil(c) == Max(1, (c + 1) \div 2)

\* const effectiveConcurrency = Math.max(1, Math.floor(concurrency))
EffectiveConcurrency(c) == Max(1, MathFloor(c))

\* One worker per item: a mutant of workerCount.
WorkerCountUnbounded(eff, n) == n

\* const workerCount = Math.min(effectiveConcurrency, items.length)
WorkerCount(eff, n) == Min(eff, n)

\* A worker that reads the cursor and forgets to advance it: a mutant.
ClaimKeepsCursor(cursor) == cursor

\* nextIndex += 1
ClaimAdvances(cursor) == cursor + 1

\* A worker that ends once an invocation has failed: a mutant.
WorkerLoopStoppingOnFailure(w, its, m, st) ==
    IF st.nextIndex < Len(its) /\ st.rejections = <<>>
    THEN LET currentIndex == st.nextIndex
             item == its[currentIndex + 1]
             threw == MapperThrows(m, item)
         IN [nextIndex |-> ClaimAdvances(st.nextIndex),
             workers |-> [st.workers EXCEPT ![w] =
                 [st |-> IF threw THEN "rejected" ELSE "awaiting",
                  currentIndex |-> currentIndex,
                  call |-> Len(st.calls) + 1]],
             calls |-> Append(st.calls,
                 [index |-> currentIndex, worker |-> w,
                  st |-> IF threw THEN "threw" ELSE "pending",
                  notified |-> IF MapperNotify(m, item) = <<>> THEN 0
                               ELSE Len(st.notifications) + 1,
                  value |-> Undefined]),
             rejections |-> IF threw
                            THEN Append(st.rejections, MapperError(m, currentIndex))
                            ELSE st.rejections,
             notifications |-> st.notifications \o MapperNotify(m, item)]
    ELSE [st EXCEPT !.workers[w].st = "fulfilled"]

\* A worker whose promise stays pending when no index is left: a mutant.
WorkerLoopWithoutEnd(w, its, m, st) ==
    IF st.nextIndex < Len(its)
    THEN LET currentIndex == st.nextIndex
             item == its[currentIndex + 1]
             threw == MapperThrows(m, item)
         IN [nextIndex |-> ClaimAdvances(st.nextIndex),
             workers |-> [st.workers EXCEPT ![w] =
                 [st |-> IF threw THEN "rejected" ELSE "awaiting",
                  currentIndex |-> currentIndex,
                  call |-> Len(st.calls) + 1]],
             calls |-> Append(st.calls,
                 [index |-> currentIndex, worker |-> w,
                  st |-> IF threw THEN "threw" ELSE "pending",
                  notified |-> IF MapperNotify(m, item) = <<>> THEN 0
                               ELSE Len(st.notifications) + 1,
                  value |-> Undefined]),
             rejections |-> IF threw
                            THEN Append(st.rejections, MapperError(m, currentIndex))
                            ELSE st.rejections,
             notifications |-> st.notifications \o MapperNotify(m, item)]
    ELSE st

\* One synchronous run of worker w from the test of its while loop: it claims
\* the next index and starts the mapper on it (to wait for it, or to be
\* rejected by what the mapper throws), or it ends. st holds the locals the
\* workers share.
WorkerLoop(w, its, m, st) ==
    IF st.nextIndex < Len(its)
    THEN LET currentIndex == st.nextIndex
             item == its[currentIndex + 1]
             threw == MapperThrows(m, item)
         IN [nextIndex |-> ClaimAdvances(st.nextIndex),
             workers |-> [st.workers EXCEPT ![w] =
                 [st |-> IF threw THEN "rejected" ELSE "awaiting",
                  currentIndex |-> currentIndex,
                  call |-> Len(st.calls) + 1]],
             calls |-> Append(st.calls,
                 [index |-> currentIndex, worker |-> w,
                  st |-> IF threw THEN "threw" ELSE "pending",
                  notified |-> IF MapperNotify(m, item) = <<>> THEN 0
                               ELSE Len(st.notifications) + 1,
                  value |-> Undefined]),
             rejections |-> IF threw
                            THEN Append(st.rejections, MapperError(m, currentIndex))
                            ELSE st.rejections,
             notifications |-> st.notifications \o MapperNotify(m, item)]
    ELSE [st EXCEPT !.workers[w].st = "fulfilled"]

\* Array.from({ length: workerCount }, () => worker()): the workers w..n
\* start one after the other, each running to its first await.
RECURSIVE SpawnWorkers(_, _, _, _, _)
SpawnWorkers(w, n, its, m, st) ==
    IF w > n THEN st
    ELSE SpawnWorkers(w + 1, n, its, m, WorkerLoop(w, its, m, st))

NewWorker == [st |-> "new", currentIndex |-> -1, call |-> 0]

Promise(st, value, reason) == [st |-> st, value |-> value, reason |-> reason]

\* The call mapWithConcurrency(its, c, m), up to its await.
MapWithConcurrency(its, c, m) ==
    /\ items' = its
    /\ concurrency' = c
    /\ mapper' = m
    /\ writes' = <<>>
    /\ IF Len(its) = 0
       THEN /\ mwc' = Promise("fulfilled", <<>>, NoError)
            /\ effectiveConcurrency' = 0
            /\ results' = <<>>
            /\ nextIndex' = 0
            /\ workers' = <<>>
            /\ calls' = <<>>
            /\ rejections' = <<>>
            /\ UNCHANGED notifications
       ELSE LET eff == EffectiveConcurrency(c)
                workerCount == Max(0, WorkerCount(eff, Len(its)))
                st == SpawnWorkers(1, workerCount, its, m,
                         [nextIndex |-> 0,
                          workers |-> [w \in 1..workerCount |-> NewWorker],
                          calls |-> <<>>,
                          rejections |-> <<>>,
                          notifications |-> notifications])
            IN /\ mwc' = Promise("pending", <<>>, NoError)
               /\ effectiveConcurrency' = eff
               /\ results' = [k \in 1..Len(its) |-> Undefined]
               /\ nextIndex' = st.nextIndex
               /\ workers' = st.workers
               /\ calls' = st.calls
               /\ rejections' = st.rejections
               /\ notifications' = st.notifications

\* results[nextIndex - 1]: the slot read from the shared cursor after the
\* await instead of the worker's own currentIndex: a mutant.
ResultSlotFromCursor(w) == nextIndex - 1

\* results[currentIndex]
ResultSlot(w) == workers[w].currentIndex

\* The mapper invocation worker w waits for fulfils with value v: the worker
\* stores v and goes round its loop.
WorkerResumes(w, v) ==
    /\ mwc.st \in {"pending", "rejected"}
    /\ w \in DOMAIN workers
    /\ workers[w].st = "awaiting"
    /\ calls[workers[w].call].st = "pending"
    /\ LET k == workers[w].call
           st == WorkerLoop(w, items, mapper,
                    [nextIndex |-> nextIndex,
                     workers |-> workers,
                     calls |-> [calls EXCEPT ![k].st = "fulfilled", ![k].value = v],
                     rejections |-> rejections,
                     notifications |-> notifications])
       IN /\ results' = [results EXCEPT ![ResultSlot(w) + 1] = v]
          /\ writes' = Append(writes, [worker |-> w, index |-> ResultSlot(w)])
          /\ nextIndex' = st.nextIndex
          /\ workers' = st.workers
          /\ calls' = st.calls
          /\ rejections' = st.rejections
          /\ notifications' = st.notifications
    /\ UNCHANGED <<CONFIG, otherVars, items, concurrency, mapper, effectiveConcurrency, mwc,
                   loopVars>>

\* The mapper invocation worker w waits for rejects: the await throws and the
\* worker's promise is rejected with the reason.
WorkerThrows(w) ==
    /\ mwc.st \in {"pending", "rejected"}
    /\ w \in DOMAIN workers
    /\ workers[w].st = "awaiting"
    /\ calls[workers[w].call].st = "pending"
    /\ calls' = [calls EXCEPT ![workers[w].call].st = "rejected"]
    /\ workers' = [workers EXCEPT ![w].st = "rejected"]
    /\ rejections' = Append(rejections, MapperError(mapper, workers[w].currentIndex))
    /\ UNCHANGED <<CONFIG, otherVars, items, concurrency, mapper, effectiveConcurrency, results,
                   nextIndex, writes, mwc, notifications, loopVars>>

\* Promise.all waiting for every worker to settle before it rejects: a mutant.
PromiseAllSettled(ws, rj) ==
    IF \E w \in DOMAIN ws : ws[w].st \in {"new", "awaiting"} THEN "pending"
    ELSE IF rj # <<>> THEN "rejected"
    ELSE "fulfilled"

\* Promise.all fulfilled by the first worker that ends: a mutant.
PromiseAny(ws, rj) ==
    IF rj # <<>> THEN "rejected"
    ELSE IF ws = <<>> \/ \E w \in DOMAIN ws : ws[w].st = "fulfilled" THEN "fulfilled"
    ELSE "pending"

\* Promise.all over the workers' promises: rejected once one is rejected,
\* fulfilled once all are fulfilled.
PromiseAll(ws, rj) ==
    IF rj # <<>> THEN "rejected"
    ELSE IF \A w \in DOMAIN ws : ws[w].st = "fulfilled" THEN "fulfilled"
    ELSE "pending"

\* await Promise.all(...) returns: mapWithConcurrency returns results.
MapReturns ==
    /\ mwc.st = "pending"
    /\ PromiseAll(workers, rejections) = "fulfilled"
    /\ mwc' = Promise("fulfilled", results, NoError)
    /\ UNCHANGED <<CONFIG, otherVars, items, concurrency, mapper, effectiveConcurrency, results,
                   nextIndex, workers, calls, writes, rejections, notifications,
                   loopVars>>

\* await Promise.all(...) throws: mapWithConcurrency rejects with the reason
\* of the first rejected worker.
MapThrows ==
    /\ mwc.st = "pending"
    /\ PromiseAll(workers, rejections) = "rejected"
    /\ mwc' = Promise("rejected", <<>>, Head(rejections))
    /\ UNCHANGED <<CONFIG, otherVars, items, concurrency, mapper, effectiveConcurrency, results,
                   nextIndex, workers, calls, writes, rejections, notifications,
                   loopVars>>

----------------------------------------------------------------------------
\* mapWithConcurrency called once with any items, any bound and a mapper whose
\* invocations fulfil or reject in any order.

\* Before executeSingleToolCall is called on its own.
NoToolCall == ToolCallContent([request |-> 0, block |-> 0], "", Arguments(NoString))

NoExec == [kind |-> "none"]

NoResult == [result |-> <<>>, isError |-> FALSE]

ConversationPath == "/conversation.json"

\* JSON.stringify(llmMessages, null, 2) of an empty conversation.
ConversationJson == <<"[", "]">>

\* const bashFiles = { "/conversation.json": JSON.stringify(...) }
OriginalFiles == [p \in {ConversationPath} |-> ConversationJson]

ToolIdle ==
    /\ toolCall = NoToolCall
    /\ single = [st |-> "idle", value |-> NoResult, reason |-> NoError, exec |-> NoExec]
    /\ bashFiles = OriginalFiles
    /\ shells = <<>>

\* Before selectCompactionModel is called.
NoModel == [provider |-> <<>>, id |-> <<>>, name |-> "undefined"]

Null == [null |-> TRUE, model |-> NoModel, apiKey |-> NoString, thinkingLevel |-> <<>>]

SelectIdle ==
    /\ selection = [st |-> "idle", at |-> 0, asked |-> <<>>, value |-> Null]

\* Before detectFileOpsFromConversation is called.
FileOpsIdle ==
    /\ fileOps = [st |-> "idle", modifiedFiles |-> <<>>, deletedFiles |-> <<>>]

\* Before isLikelyTempArtifactPath is called.
TempIdle ==
    /\ tempLike = [st |-> "idle", value |-> FALSE]

\* Before the user's note is extracted.
NoteIdle ==
    /\ note = [st |-> "idle", value |-> NoString]

\* Before buildFileOpsContext is called.
ContextIdle ==
    /\ fileOpsContext = [st |-> "idle", text |-> <<>>]

\* Before handleCompaction is called, an event without anything to compact.
NoEvent ==
    [messages |-> 0, customInstructions |-> NoString,
     firstKeptEntryId |-> <<"e">>, tokensBefore |-> 9]

HandlerIdle ==
    /\ handler = [pc |-> "idle", returned |-> Undefined]

LaterIdle ==
    /\ filePath = <<>>
    /\ TempIdle
    /\ customInstructions = NoString
    /\ NoteIdle
    /\ ContextIdle
    /\ event = NoEvent
    /\ HandlerIdle

LoopIdle ==
    /\ signal = FALSE
    /\ pc = "idle"
    /\ messages = <<>>
    /\ trajectory = <<>>
    /\ toolCalls = <<>>
    /\ responses = <<>>
    /\ requests = <<>>
    /\ completing = 0
    /\ outcome = Promise("idle", NoString, NoError)

PoolIdle ==
    /\ effectiveConcurrency = 0
    /\ results = <<>>
    /\ nextIndex = 0
    /\ workers = <<>>
    /\ calls = <<>>
    /\ writes = <<>>
    /\ rejections = <<>>
    /\ mwc = Promise("idle", <<>>, NoError)

InitMap ==
    /\ CONFIG = DEFAULT_CONFIG
    /\ items \in SeqsUpTo(1..MaxItemValue, MaxItems)
    /\ concurrency \in (-MaxNegativeHalves)..MaxConcurrencyHalves
    /\ mapper \in {"double", "index"}
    /\ PoolIdle
    /\ notifications = <<>>
    /\ LoopIdle
    /\ ToolIdle
    /\ modelRegistry = <<>>
    /\ sessionModel = NoModel
    /\ SelectIdle
    /\ llmMessages = <<>>
    /\ FileOpsIdle
    /\ LaterIdle

CallMap ==
    /\ mwc.st = "idle"
    /\ MapWithConcurrency(items, concurrency, mapper)
    /\ UNCHANGED <<CONFIG, otherVars, loopVars>>

MapperFulfils ==
    \E w \in DOMAIN workers :
        /\ mapper # "tool"
        /\ WorkerResumes(w, MapperFn(mapper, items[workers[w].currentIndex + 1],
                                     workers[w].currentIndex))

MapperRejects ==
    \E w \in DOMAIN workers : mapper # "tool" /\ WorkerThrows(w)

NextMap ==
    \/ CallMap
    \/ MapperFulfils
    \/ MapperRejects
    \/ MapReturns
    \/ MapThrows

SpecMap == InitMap /\ [][NextMap]_vars

\* SpecMap with the scheduling of the event loop: a mapper invocation under
\* way settles in the end, and the continuation of a settled promise is
\* run.
SpecMapLive ==
    /\ InitMap
    /\ [][NextMap]_vars
    /\ WF_vars(MapperFulfils \/ MapperRejects)
    /\ WF_vars(MapReturns \/ MapThrows)

----------------------------------------------------------------------------
\* Properties of mapWithConcurrency (checked under SpecMap unless said).

Called == mwc.st # "idle"

InFlight == Cardinality({k \in DOMAIN calls : calls[k].st = "pending"})

AnyFailed == \E k \in DOMAIN calls : calls[k].st \in {"rejected", "threw"}

\* The strictly sequential map: mapper(items[i], i) for i = 0, 1, ...
SequentialMap(its, m) == [k \in 1..Len(its) |-> MapperFn(m, its[k], k - 1)]

WritesOutOfOrder ==
    \E a, b \in DOMAIN writes : a < b /\ writes[a].index > writes[b].index

\* C1: when mapWithConcurrency returns, the array it returns has one entry per
\* item, entry i is the value the mapper invocation for index i produced, and
\* the whole equals the strictly sequential map of the items, whatever the
\* bound and the order in which the invocations completed.
C1_ResultsEqualSequentialMap ==
    mwc.st = "fulfilled" =>
        /\ Len(mwc.value) = Len(items)
        /\ \A k \in DOMAIN calls : mwc.value[calls[k].index + 1] = calls[k].value
        /\ mwc.value = SequentialMap(items, mapper)

\* C1 witness: a call with three items and at least two workers returned after
\* its invocations completed out of index order.
C1_Witness ==
    /\ mwc.st = "fulfilled"
    /\ Len(items) = 3
    /\ Len(workers) >= 2
    /\ WritesOutOfOrder

\* C3: no index is claimed twice, no slot of results is written twice, a slot
\* is written only by the worker that claimed its index, and when
\* mapWithConcurrency returns the mapper was invoked exactly once per index
\* (never, with an empty result, for empty input).
C3_EachIndexClaimedOnce ==
    /\ \A a, b \in DOMAIN calls : a # b => calls[a].index # calls[b].index
    /\ \A a, b \in DOMAIN writes : a # b => writes[a].index # writes[b].index
    /\ \A a \in DOMAIN writes :
           \E k \in DOMAIN calls :
               /\ calls[k].index = writes[a].index
               /\ calls[k].worker = writes[a].worker
    /\ mwc.st = "fulfilled" =>
           /\ Len(calls) = Len(items)
           /\ {calls[k].index : k \in DOMAIN calls} = 0..(Len(items) - 1)
           /\ items = <<>> => mwc.value = <<>>

\* C3 witness: a call with three items shared by two workers returned, so one
\* worker claimed two indices.
C3_Witness ==
    /\ mwc.st = "fulfilled"
    /\ Len(items) = 3
    /\ Len(workers) = 2
    /\ Len(writes) = 3

\* C4: a bound c <= 0 gives what c = 1 gives: one worker, at most one
\* invocation in flight, the invocations started in index order each after the
\* one before it settled, and the sequential map as the result.
C4_NonPositiveBoundIsOne ==
    (Called /\ items # <<>> /\ (concurrency <= 0 \/ concurrency = Num(1))) =>
        /\ Len(workers) = 1
        /\ InFlight <= 1
        /\ \A k \in DOMAIN calls :
               /\ calls[k].index = k - 1
               /\ k > 1 => calls[k - 1].st # "pending"
        /\ mwc.st = "fulfilled" => mwc.value = SequentialMap(items, mapper)

\* C4 witness: a call with a negative bound and three items returned.
C4_Witness ==
    /\ concurrency < 0
    /\ Len(items) = 3
    /\ mwc.st = "fulfilled"

Fractional(h) == h % 2 = 1

\* C5 as stated: a fractional bound, like a non-positive one, becomes an
\* effective bound of 1.
C5_FractionalBoundBecomesOne ==
    (Called /\ items # <<>> /\ (Fractional(concurrency) \/ concurrency <= 0)) =>
        effectiveConcurrency = 1

\* C5 as amended: the effective bound is the bound rounded down and raised to
\* at least 1: it is 1 for every bound below 2 (the non-positive ones and the
\* fractional ones below 2), and for a bound of 2 or more it is the integer e
\* with e <= bound < e + 1.
C5_BoundIsFlooredAtLeastOne ==
    (Called /\ items # <<>>) =>
        /\ effectiveConcurrency >= 1
        /\ concurrency < Num(2) => effectiveConcurrency = 1
        /\ concurrency >= Num(2) =>
               /\ Num(effectiveConcurrency) <= concurrency
               /\ concurrency < Num(effectiveConcurrency + 1)

\* C5 witness: a call with a fractional bound above 2 (2.5 or 3.5) is under way
\* with more than one worker.
C5_Witness ==
    /\ Called
    /\ Fractional(concurrency)
    /\ concurrency > Num(2)
    /\ Len(workers) >= 2

\* C6: once a mapper invocation has failed mapWithConcurrency never returns an
\* array (whole or partial); it rejects with the first failure; and the
\* rejection waits for nothing: as long as the call is pending after a failure
\* its rejection can happen at once, whatever is still in flight.
C6_FailureRejectsAtOnce ==
    /\ AnyFailed => (mwc.st # "fulfilled" /\ mwc.value = <<>>)
    /\ mwc.st = "rejected" => (AnyFailed /\ mwc.reason = rejections[1])
    /\ (AnyFailed /\ mwc.st = "pending") => ENABLED MapThrows

\* C6 witness: the call has rejected while another invocation is in flight.
C6_Witness ==
    /\ mwc.st = "rejected"
    /\ InFlight >= 1

----------------------------------------------------------------------------
\* runAgentLoop (AGENT LOOP section).

AssistantMessage(content) == [role |-> "assistant", content |-> content]

ToolResultMessage(tc, r) ==
    [role |-> "toolResult", toolCallId |-> tc.id, toolName |-> tc.name,
     content |-> <<TextContent(r.result)>>, isError |-> r.isError]

\* What the model can put before its tool calls: nothing, or two text blocks
\* with white space around them.
TextPrefixes ==
    {<<>>, <<TextContent(<<" ", "a">>), TextContent(<<"b", "\n">>)>>}

\* The tool calls the model can emit: a well-formed one, and one whose
\* arguments hold no command.
ToolShapes ==
    {[name |-> "bash", arguments |-> Arguments(StringValue(<<"l", "s">>))],
     [name |-> "zsh", arguments |-> Arguments(NoString)]}

ToolCallSeqs(n) ==
    UNION {{[j \in 1..k |-> ToolCallContent([request |-> n, block |-> j],
                                            shape[j].name, shape[j].arguments)] :
               shape \in [1..k -> ToolShapes]} : k \in 0..MaxCalls}

\* The contents complete() can answer request n with: no tool call or one,
\* with or without text before it, or several tool calls.
Responses(n) ==
    {prefix \o tcs : prefix \in TextPrefixes,
                     tcs \in {t \in ToolCallSeqs(n) : Len(t) <= 1}}
        \cup {t \in ToolCallSeqs(n) : Len(t) > 1}

\* What bash.exec does with a command of the loop.
LoopExecOutcomes == {r \in ExecOutcomes : r.kind = "exit"}

\* response.content.filter(isToolCallContent)
ToolCallsOf(content) == SelectBlocks(content, "toolCall")

\* The loop taking a response with text for the final one: a mutant.
HasToolCallsAndNoText(tcs, content) ==
    Len(tcs) > 0 /\ SelectBlocks(content, "text") = <<>>

\* if (toolCalls.length > 0)
HasToolCalls(tcs, content) == Len(tcs) > 0

\* The join without the separator and the trim: a mutant.
SummaryConcatenated(content) ==
    Concat([k \in DOMAIN SelectBlocks(content, "text") |->
               SelectBlocks(content, "text")[k].text])

\* response.content.filter(isTextContent).map((c) => c.text).join("\n").trim()
SummaryOf(content) ==
    Trim(Join([k \in DOMAIN SelectBlocks(content, "text") |->
                  SelectBlocks(content, "text")[k].text], <<"\n">>))

\* The ids of the tool calls of the current batch that have run to their end.
Executed ==
    {items[calls[k].index + 1].id :
        k \in {c \in DOMAIN calls : mapper = "tool" /\ calls[c].st = "fulfilled"}}

\* The head of the while loop without the test of the signal: a mutant.
RequestingUnchecked(msgs) ==
    /\ Len(requests) < MaxRequests
    /\ requests' = Append(requests,
           [messages |-> msgs, aborted |-> signal, executed |-> Executed])
    /\ completing' = completing + 1
    /\ pc' = "Completing"
    /\ outcome' = Promise("pending", NoString, NoError)

\* A loop that tests the signal before its first request only: a mutant.
RequestingCheckedOnce(msgs) ==
    IF signal /\ msgs = <<>>
    THEN /\ pc' = "Aborted"
         /\ outcome' = Promise("fulfilled", NoString, NoError)
         /\ UNCHANGED <<requests, completing>>
    ELSE /\ Len(requests) < MaxRequests
         /\ requests' = Append(requests,
                [messages |-> msgs, aborted |-> signal, executed |-> Executed])
         /\ completing' = completing + 1
         /\ pc' = "Completing"
         /\ outcome' = Promise("pending", NoString, NoError)

\* The head of the while loop: return undefined when the signal is set, else
\* call complete() with the transcript msgs and await it.
Requesting(msgs) ==
    IF signal
    THEN /\ pc' = "Aborted"
         /\ outcome' = Promise("fulfilled", NoString, NoError)
         /\ UNCHANGED <<requests, completing>>
    ELSE /\ Len(requests) < MaxRequests
         /\ requests' = Append(requests,
                [messages |-> msgs, aborted |-> signal, executed |-> Executed])
         /\ completing' = completing + 1
         /\ pc' = "Completing"
         /\ outcome' = Promise("pending", NoString, NoError)

\* runAgentLoop(params) is called.
RunAgentLoop ==
    /\ pc = "idle"
    /\ messages' = <<>>
    /\ trajectory' = <<>>
    /\ Requesting(<<>>)
    /\ UNCHANGED <<CONFIG, otherVars, poolVars, notifications, signal, toolCalls, responses>>

\* The loop calling executeToolCalls without awaiting it, and going round at
\* once: a mutant.
CompleteReturnsWithoutAwait ==
    /\ pc = "Completing"
    /\ \E content \in Responses(Len(requests)) :
          LET tcs == ToolCallsOf(content)
          IN /\ responses' = Append(responses, content)
             /\ toolCalls' = tcs
             /\ IF HasToolCalls(tcs, content)
                THEN /\ messages' = Append(messages, AssistantMessage(content))
                     /\ trajectory' = Append(trajectory, AssistantMessage(content))
                     /\ MapWithConcurrency(tcs, Num(CONFIG.toolCallConcurrency), "tool")
                     /\ Len(requests) < MaxRequests
                     /\ requests' = Append(requests,
                            [messages |-> messages', aborted |-> signal,
                             executed |-> {}])
                     /\ pc' = "Completing"
                     /\ UNCHANGED <<outcome, completing>>
                ELSE /\ trajectory' = Append(trajectory, AssistantMessage(content))
                     /\ outcome' = Promise("fulfilled", StringValue(SummaryOf(content)),
                                           NoError)
                     /\ completing' = completing - 1
                     /\ pc' = "Done"
                     /\ UNCHANGED <<messages, poolVars, notifications, requests>>
    /\ UNCHANGED <<CONFIG, otherVars, signal>>

\* await complete(...) returns a response: the loop dispatches its tool calls,
\* or returns the summary when it has none.
CompleteReturns ==
    /\ pc = "Completing"
    /\ \E content \in Responses(Len(requests)) :
          LET tcs == ToolCallsOf(content)
          IN /\ responses' = Append(responses, content)
             /\ completing' = completing - 1
             /\ toolCalls' = tcs
             /\ IF HasToolCalls(tcs, content)
                THEN /\ messages' = Append(messages, AssistantMessage(content))
                     /\ trajectory' = Append(trajectory, AssistantMessage(content))
                     /\ MapWithConcurrency(tcs, Num(CONFIG.toolCallConcurrency), "tool")
                     /\ pc' = "Executing"
                     /\ UNCHANGED outcome
                ELSE /\ trajectory' = Append(trajectory, AssistantMessage(content))
                     /\ outcome' = Promise("fulfilled", StringValue(SummaryOf(content)),
                                           NoError)
                     /\ pc' = "Done"
                     /\ UNCHANGED <<messages, poolVars, notifications>>
    /\ UNCHANGED <<CONFIG, otherVars, signal, requests>>

\* The loop taking the provider's error for a response without content, and
\* returning an empty summary: a mutant.
CompleteThrowsSwallowed ==
    /\ pc = "Completing"
    /\ completing' = completing - 1
    /\ pc' = "Done"
    /\ outcome' = Promise("fulfilled", StringValue(<<>>), NoError)
    /\ UNCHANGED <<CONFIG, otherVars, poolVars, notifications, signal, messages, trajectory,
                   toolCalls, responses, requests>>

\* await complete(...) throws: runAgentLoop rejects with the provider's error.
CompleteThrows ==
    /\ pc = "Completing"
    /\ completing' = completing - 1
    /\ pc' = "Failed"
    /\ outcome' = Promise("rejected", NoString, [error |-> "completion", index |-> -1])
    /\ UNCHANGED <<CONFIG, otherVars, poolVars, notifications, signal, messages, trajectory,
                   toolCalls, responses, requests>>

\* The tool-result turns of the batch from the last tool call to the first:
\* a mutant.
RECURSIVE ToolResultMessagesReversed(_, _)
ToolResultMessagesReversed(tcs, rs) ==
    IF tcs = <<>> THEN <<>>
    ELSE ToolResultMessagesReversed(Tail(tcs), Tail(rs))
             \o <<ToolResultMessage(Head(tcs), Head(rs))>>

\* The tool-result turns of the batch, in the order of toolCalls.
RECURSIVE ToolResultMessages(_, _)
ToolResultMessages(tcs, rs) ==
    IF tcs = <<>> THEN <<>>
    ELSE <<ToolResultMessage(Head(tcs), Head(rs))>>
             \o ToolResultMessages(Tail(tcs), Tail(rs))

\* await executeToolCalls(...) returns: one tool-result turn per tool call is
\* pushed and the loop goes round. (Reading r.result of a slot that was never
\* written throws a TypeError.)
ExecutingReturns ==
    /\ pc = "Executing"
    /\ mwc.st = "fulfilled"
    /\ IF \E k \in DOMAIN toolCalls : mwc.value[k] = Undefined
       THEN /\ pc' = "Failed"
            /\ outcome' = Promise("rejected", NoString,
                                  [error |-> "TypeError", index |-> -1])
            /\ UNCHANGED <<messages, trajectory, requests, completing>>
       ELSE LET pushed == ToolResultMessages(toolCalls, mwc.value)
            IN /\ messages' = messages \o pushed
               /\ trajectory' = trajectory \o pushed
               /\ Requesting(messages \o pushed)
    /\ UNCHANGED <<CONFIG, otherVars, poolVars, notifications, signal, toolCalls, responses>>

\* await executeToolCalls(...) throws: runAgentLoop rejects with the reason.
ExecutingThrows ==
    /\ pc = "Executing"
    /\ mwc.st = "rejected"
    /\ pc' = "Failed"
    /\ outcome' = Promise("rejected", NoString, mwc.reason)
    /\ UNCHANGED <<CONFIG, otherVars, poolVars, notifications, signal, messages, trajectory,
                   toolCalls, responses, requests, completing>>

\* bash.exec settles for the tool call worker w waits for.
ToolCallSettles ==
    \E w \in DOMAIN workers : \E r \in LoopExecOutcomes :
        /\ mapper = "tool"
        /\ WorkerResumes(w, executeSingleToolCall(r))

\* The host aborts the compaction: signal.aborted becomes true.
Abort ==
    /\ ~signal
    /\ pc \in {"idle", "Completing", "Executing"}
    /\ signal' = TRUE
    /\ UNCHANGED <<CONFIG, otherVars, poolVars, notifications, pc, messages, trajectory,
                   toolCalls, responses, requests, completing, outcome>>

Init ==
    /\ CONFIG \in {loadConfig(parsed) : parsed \in ParsedConfigs}
    /\ items = <<>>
    /\ concurrency = 0
    /\ mapper = "tool"
    /\ PoolIdle
    /\ notifications = <<>>
    /\ LoopIdle
    /\ ToolIdle
    /\ modelRegistry = <<>>
    /\ sessionModel = NoModel
    /\ SelectIdle
    /\ llmMessages = <<>>
    /\ FileOpsIdle
    /\ LaterIdle

Next ==
    \/ RunAgentLoop
    \/ CompleteReturns
    \/ CompleteThrows
    \/ ToolCallSettles
    \/ MapReturns
    \/ MapThrows
    \/ ExecutingReturns
    \/ ExecutingThrows
    \/ Abort

Spec == Init /\ [][Next]_vars

\* Spec with the scheduling of the event loop: a request or a tool call
\* under way settles in the end, and the continuation of a settled promise
\* is run.
SpecLive ==
    /\ Init
    /\ [][Next]_vars
    /\ WF_vars(CompleteReturns \/ CompleteThrows \/ ToolCallSettles)
    /\ WF_vars(MapReturns \/ MapThrows \/ ExecutingReturns \/ ExecutingThrows)

----------------------------------------------------------------------------
\* Properties of runAgentLoop and executeToolCalls (checked under Spec).

LastResponse == responses[Len(responses)]

ToolCallIds(content) ==
    {ToolCallsOf(content)[k].id : k \in DOMAIN ToolCallsOf(content)}

Batches == Len(SelectSeq(messages, LAMBDA m : m.role = "assistant"))

\* C2 as stated: never more invocations in flight than min(C', N), and never
\* more tool calls running than CONFIG.toolCallConcurrency.
C2_AtMostToolCallConcurrencyRun ==
    /\ InFlight <= Min(effectiveConcurrency, Len(items))
    /\ InFlight <= CONFIG.toolCallConcurrency

\* C2, the part that holds: never more invocations in flight than min(C', N), where C'
\* is the effective bound and N the number of items; for executeToolCalls C' is
\* toolCallConcurrency raised to at least 1, so at most
\* max(1, toolCallConcurrency) tool calls of a turn run at the same time.
C2_InFlightAtMostEffectiveBound ==
    /\ InFlight <= Min(effectiveConcurrency, Len(items))
    /\ InFlight <= Max(1, CONFIG.toolCallConcurrency)

\* C2 witness: a turn of two tool calls under an effective bound of 1: the
\* second call is in flight after the first has settled.
C2_Witness ==
    /\ Len(items) = 2
    /\ effectiveConcurrency = 1
    /\ nextIndex = 2
    /\ InFlight = 1

\* The text blocks of a content with a newline between every two of them.
RECURSIVE TextLines(_)
TextLines(content) ==
    IF content = <<>> THEN <<>>
    ELSE IF Head(content).type # "text" THEN TextLines(Tail(content))
    ELSE IF TextLines(Tail(content)) = <<>>
              /\ SelectBlocks(Tail(content), "text") = <<>>
         THEN Head(content).text
    ELSE Head(content).text \o <<"\n">> \o TextLines(Tail(content))

\* The text blocks of a content one after the other.
RECURSIVE TextConcatenation(_)
TextConcatenation(content) ==
    IF content = <<>> THEN <<>>
    ELSE IF Head(content).type # "text" THEN TextConcatenation(Tail(content))
    ELSE Head(content).text \o TextConcatenation(Tail(content))

\* Every request after the first was issued after all the tool calls of the
\* response before it had run to their end.
ToolCallsRunBeforeNextRequest ==
    \A r \in DOMAIN requests :
        r > 1 => /\ ToolCallsOf(responses[r - 1]) # <<>>
                 /\ requests[r].executed = ToolCallIds(responses[r - 1])

DoneExactlyOnToolFreeResponse ==
    (pc = "Done") <=> (responses # <<>> /\ ToolCallsOf(LastResponse) = <<>>)

\* C7 as stated: the loop is Done exactly when the last response holds no
\* tool call, its result is then the concatenation of that response's text
\* blocks, and a response with tool calls has all of them run before the next
\* completion request.
C7_DoneReturnsConcatenation ==
    /\ DoneExactlyOnToolFreeResponse
    /\ pc = "Done" =>
           outcome = Promise("fulfilled",
                             StringValue(TextConcatenation(LastResponse)), NoError)
    /\ ToolCallsRunBeforeNextRequest

\* C7 as amended: as stated, but the result is the response's text blocks
\* joined with a newline between them, with the white space at both ends of
\* the whole removed.
C7_DoneReturnsTrimmedLines ==
    /\ DoneExactlyOnToolFreeResponse
    /\ pc = "Done" =>
           outcome = Promise("fulfilled",
                             StringValue(Trim(TextLines(LastResponse))), NoError)
    /\ ToolCallsRunBeforeNextRequest

\* C7 witness: a response with text and a tool call was followed, after the
\* tool call ran, by a response of two text blocks, which ended the loop.
C7_Witness ==
    /\ pc = "Done"
    /\ Len(responses) = 2
    /\ SelectBlocks(responses[1], "text") # <<>>
    /\ ToolCallsOf(responses[1]) # <<>>
    /\ Len(SelectBlocks(responses[2], "text")) = 2

\* C8: once the signal is set no completion request is issued, and a step
\* that takes the loop to the head of its while loop (from the call, or from
\* a settled batch of tool calls) ends it as Aborted, returning undefined.
C8_NoRequestOnceAborted ==
    [][signal =>
          /\ requests' = requests
          /\ completing' <= completing
          /\ (pc \in {"idle", "Executing"} /\ pc' \notin {pc, "Failed"}) =>
                 /\ pc' = "Aborted"
                 /\ outcome' = Promise("fulfilled", NoString, NoError)]_vars

\* C8 witness: the loop ended as Aborted after a batch of tool calls settled
\* and its tool-result turns were pushed.
C8_Witness ==
    /\ pc = "Aborted"
    /\ Len(requests) = 1
    /\ Len(messages) >= 2

\* C9: at most one completion request is in flight, none is in flight while a
\* tool call is, and requests and batches alternate: while a request is in
\* flight the loop has dispatched one batch less than it has issued requests,
\* while a batch executes as many.
C9_RequestsAndBatchesAlternate ==
    /\ completing \in {0, 1}
    /\ completing = 1 => (pc = "Completing" /\ InFlight = 0)
    /\ pc = "Completing" => (completing = 1 /\ Len(requests) = Batches + 1)
    /\ pc = "Executing" => (completing = 0 /\ Len(requests) = Batches)

\* C9 witness: the second completion request is in flight, after a batch of
\* two tool calls that ran at the same time.
C9_Witness ==
    /\ pc = "Completing"
    /\ Len(requests) = 2
    /\ Len(toolCalls) = 2
    /\ Len(workers) = 2
    /\ WritesOutOfOrder

\* Every tool call of the current turn has been started and has settled
\* (fulfilled, or failed).
AllCallsSettled ==
    \A i \in 0..(Len(toolCalls) - 1) :
        \E k \in DOMAIN calls : calls[k].index = i /\ calls[k].st # "pending"

\* The transcript ends with the assistant turn of the last response followed
\* by one tool-result turn per tool call, the i-th made of the i-th call and of
\* what its execution produced.
ToolResultsAppended ==
    LET k == Len(toolCalls)
        n == Len(messages)
    IN /\ n >= k + 1
       /\ messages[n - k] = AssistantMessage(LastResponse)
       /\ \A i \in 1..k :
              \E c \in DOMAIN calls :
                  /\ calls[c].index = i - 1
                  /\ calls[c].st = "fulfilled"
                  /\ messages[n - k + i] = ToolResultMessage(toolCalls[i], calls[c].value)

\* C10 as stated: once all the tool calls of a turn have settled and the loop
\* has gone on, the transcript holds their k tool-result turns in call order,
\* and a next completion request carries them.
C10_ToolResultsAppendedInCallOrder ==
    /\ (toolCalls # <<>> /\ AllCallsSettled /\ pc # "Executing") => ToolResultsAppended
    /\ pc = "Completing" => requests[Len(requests)].messages = messages

\* C10, where no tool call of the turn raised: the k tool-result turns are in
\* the transcript, in call order, once the loop has gone on.
C10_AppendedWhenNoCallRaises ==
    /\ (toolCalls # <<>> /\ AllCallsSettled /\ pc # "Executing" /\ ~AnyFailed)
           => ToolResultsAppended
    /\ pc = "Completing" => requests[Len(requests)].messages = messages

CompletionError == [error |-> "completion", index |-> -1]

\* The loop ended at or after a batch of tool calls with the signal set: the
\* signal was set before the batch of the last turn was over.
EndedUnderAbort ==
    /\ signal
    /\ toolCalls # <<>>
    /\ pc \in {"Aborted", "Failed"}
    /\ outcome.reason # CompletionError

\* C11 as stated: when the signal is set before the batch of a turn is over,
\* every tool call of the turn is still executed and its tool-result turn
\* appended; the loop ends as Aborted only with the signal set, at the head of
\* its while loop, without a further request.
C11_AbortDoesNotPreemptBatch ==
    /\ EndedUnderAbort =>
           /\ AllCallsSettled
           /\ ToolResultsAppended
           /\ pc = "Aborted"
           /\ Len(requests) = Batches
    /\ pc = "Aborted" => signal

\* C11, where no tool call of the turn raised: a signal set before or during
\* the batch leaves every tool call executed and its tool-result turn
\* appended, and the loop then ends as Aborted without a further request.
C11_BatchCompletesWhenNoCallRaises ==
    /\ (EndedUnderAbort /\ ~AnyFailed) =>
           /\ AllCallsSettled
           /\ ToolResultsAppended
           /\ pc = "Aborted"
           /\ Len(requests) = Batches
    /\ pc = "Aborted" => signal

\* C12: a completion request that raises (it ends without a response) makes
\* the loop fail with the provider's error, and a loop that failed so issues
\* no further request, starts no tool call and never returns a summary.
C12_CompletionErrorIsTerminal ==
    [][/\ (pc = "Completing" /\ completing' < completing /\ responses' = responses) =>
              /\ pc' = "Failed"
              /\ outcome' = Promise("rejected", NoString, CompletionError)
       /\ (outcome.st = "rejected" /\ outcome.reason = CompletionError) =>
              /\ requests' = requests
              /\ calls' = calls
              /\ outcome' = outcome
              /\ pc' = pc]_vars

\* C12 witness: the second completion request, issued after a batch of tool
\* calls, raised and the loop failed with the provider's error.
C12_Witness ==
    /\ pc = "Failed"
    /\ outcome = Promise("rejected", NoString, CompletionError)
    /\ Len(requests) = 2
    /\ completing = 0
    /\ InFlight = 0

\* C13 as stated: the loop fails with a completion provider's error only, and
\* no invocation of the mapper of executeToolCalls raises, whatever the tool
\* call.
C13_OnlyCompletionErrorsAbort ==
    /\ outcome.st = "rejected" => outcome.reason = CompletionError
    /\ \A k \in DOMAIN calls : calls[k].st \notin {"threw", "rejected"}

----------------------------------------------------------------------------
\* executeToolCalls and executeSingleToolCall called on their own, with any
\* tool call the model can emit, under a config.json that sets the limits of
\* the tool execution.

\* tc.arguments when it is null.
NullArguments == [type |-> "null", command |-> NoString]

\* The tool calls tried: two well-formed ones, one whose arguments hold no
\* command, one without arguments.
DirectToolShapes ==
    {[name |-> "bash", arguments |-> Arguments(StringValue(<<"l", "s">>))],
     [name |-> "sh", arguments |-> Arguments(StringValue(<<"l">>))],
     [name |-> "zsh", arguments |-> Arguments(NoString)],
     [name |-> "bash", arguments |-> NullArguments]}

DirectToolCallSeqs ==
    UNION {{[j \in 1..k |-> ToolCallContent([request |-> 0, block |-> j],
                                            shape[j].name, shape[j].arguments)] :
               shape \in [1..k -> DirectToolShapes]} : k \in 0..MaxCalls}

\* The limits tried in config.json: toolResultMaxChars absent or 2,
\* toolCallPreviewChars absent, 1 or 1.5.
ToolParsedConfigs ==
    {[EmptyParsed EXCEPT !.toolResultMaxChars = r, !.toolCallPreviewChars = v] :
        r \in {NoValue, NumberValue(4)},
        v \in {NoValue, NumberValue(2), NumberValue(3)}}

InitTool ==
    /\ CONFIG \in {loadConfig(parsed) : parsed \in ToolParsedConfigs}
    /\ items = <<>>
    /\ concurrency = 0
    /\ mapper = "tool"
    /\ PoolIdle
    /\ notifications = <<>>
    /\ LoopIdle
    /\ ToolIdle
    /\ modelRegistry = <<>>
    /\ sessionModel = NoModel
    /\ SelectIdle
    /\ llmMessages = <<>>
    /\ FileOpsIdle
    /\ LaterIdle

\* executeToolCalls(toolCalls, bashFiles, notifyFn) is called.
ExecuteToolCalls ==
    /\ mwc.st = "idle"
    /\ single.st = "idle"
    /\ \E tcs \in DirectToolCallSeqs :
          MapWithConcurrency(tcs, Num(CONFIG.toolCallConcurrency), "tool")
    /\ UNCHANGED <<CONFIG, otherVars, loopVars>>

\* bash.exec settles, or throws, for the tool call worker w waits for.
BashExecSettles ==
    \E w \in DOMAIN workers : \E r \in ExecOutcomes :
        /\ mapper = "tool"
        /\ WorkerResumes(w, executeSingleToolCall(r))

\* const { command } = tc.arguments throws a TypeError when tc.arguments is
\* null or undefined.
DestructuringThrows(t) == t.arguments.type # "object"

\* executeSingleToolCall(tc, bashFiles) is called: it runs to await
\* bash.exec(command), or is rejected by what the destructuring throws.
ExecuteSingleToolCall ==
    /\ mwc.st = "idle"
    /\ single.st = "idle"
    /\ \E shape \in DirectToolShapes :
          LET t == ToolCallContent([request |-> 0, block |-> 1],
                                   shape.name, shape.arguments)
          IN /\ toolCall' = t
             /\ single' = IF DestructuringThrows(t)
                          THEN [st |-> "rejected", value |-> NoResult,
                                reason |-> MapperError("tool", 0), exec |-> NoExec]
                          ELSE [st |-> "pending", value |-> NoResult,
                                reason |-> NoError, exec |-> NoExec]
    /\ UNCHANGED <<CONFIG, poolVars, notifications, loopVars, bashFiles, shells,
                   selectVars, fileOpsVars, laterVars>>

\* bash.exec settles, or throws: executeSingleToolCall returns its result.
SingleBashExecSettles ==
    /\ single.st = "pending"
    /\ \E r \in ExecOutcomes :
          single' = [st |-> "fulfilled", value |-> executeSingleToolCall(r),
                     reason |-> NoError, exec |-> r]
    /\ UNCHANGED <<CONFIG, poolVars, notifications, loopVars, toolCall, bashFiles,
                   shells, selectVars, fileOpsVars, laterVars>>

NextTool ==
    \/ ExecuteToolCalls
    \/ BashExecSettles
    \/ MapReturns
    \/ MapThrows
    \/ ExecuteSingleToolCall
    \/ SingleBashExecSettles

SpecTool == InitTool /\ [][NextTool]_vars

----------------------------------------------------------------------------
\* executeSingleToolCall called several times, at once or one after another,
\* with the one bashFiles object of a compaction. The shell of just-bash is
\* outside src/index.ts: what new Bash({ files }) and bash.exec do to the
\* files is modelled from the contract of the sandbox (a shell over its own
\* in-memory file system, filled from files when it is built).

\* The commands of the tool calls: one that reads the conversation, one that
\* overwrites it, one that removes it.
ShellCommands == {"cat", "overwrite", "rm"}

\* Files shared with the shell of the tool call before: a mutant.
ShellFilesOfTheCallBefore ==
    IF shells = <<>> THEN bashFiles ELSE shells[Len(shells)].fs

\* new Bash({ files: bashFiles }): the files the shell is built with.
ShellFiles == bashFiles

\* The file system of a new shell: a copy of the files it was built with.
InMemoryFs(files) == [p \in DOMAIN files |-> files[p]]

\* What a command leaves of the file system fs.
FsAfter(fs, command) ==
    CASE command = "overwrite" ->
             [p \in DOMAIN fs \cup {ConversationPath} |->
                 IF p = ConversationPath THEN <<"x">> ELSE fs[p]]
      [] command = "rm" -> [p \in DOMAIN fs \ {ConversationPath} |-> fs[p]]
      [] OTHER -> fs

\* What a command writes to its standard output.
StdoutOf(fs, command) ==
    IF command = "cat" /\ ConversationPath \in DOMAIN fs
    THEN fs[ConversationPath]
    ELSE <<>>

InitSnapshot ==
    /\ CONFIG = DEFAULT_CONFIG
    /\ items = <<>>
    /\ concurrency = 0
    /\ mapper = "tool"
    /\ PoolIdle
    /\ notifications = <<>>
    /\ LoopIdle
    /\ ToolIdle
    /\ modelRegistry = <<>>
    /\ sessionModel = NoModel
    /\ SelectIdle
    /\ llmMessages = <<>>
    /\ FileOpsIdle
    /\ LaterIdle

\* executeSingleToolCall(tc, bashFiles) is called: it builds a shell from
\* bashFiles and runs to await bash.exec(command).
StartToolCall ==
    /\ Len(shells) < MaxShells
    /\ \E command \in ShellCommands :
          shells' = Append(shells,
              [command |-> command,
               files |-> ShellFiles,
               fs |-> InMemoryFs(ShellFiles),
               settledBefore |-> {k \in DOMAIN shells : shells[k].st = "settled"},
               st |-> "running",
               stdout |-> <<>>])
    /\ UNCHANGED <<CONFIG, poolVars, notifications, loopVars, toolCall, single, bashFiles,
                   selectVars, fileOpsVars, laterVars>>

\* bash.exec settles for the shell of tool call k.
ShellExecSettles ==
    /\ \E k \in DOMAIN shells :
          /\ shells[k].st = "running"
          /\ shells' = [shells EXCEPT
                 ![k].st = "settled",
                 ![k].stdout = StdoutOf(shells[k].fs, shells[k].command),
                 ![k].fs = FsAfter(shells[k].fs, shells[k].command)]
    /\ UNCHANGED <<CONFIG, poolVars, notifications, loopVars, toolCall, single, bashFiles,
                   selectVars, fileOpsVars, laterVars>>

NextSnapshot ==
    \/ StartToolCall
    \/ ShellExecSettles

SpecSnapshot == InitSnapshot /\ [][NextSnapshot]_vars

----------------------------------------------------------------------------
\* Properties of executeSingleToolCall and executeToolCalls (checked under
\* SpecTool).

ErrorPrefix == <<"E", "r", "r", "o", "r", ":", " ">>

ExitCodeMarker(n) ==
    <<"\n", "e", "x", "i", "t", " ", "c", "o", "d", "e", ":", " ">> \o ExitCodeText(n)

IsPrefix(a, b) == Len(a) <= Len(b) /\ SubSeq(b, 1, Len(a)) = a

IsSuffix(a, b) == Len(a) <= Len(b) /\ SubSeq(b, Len(b) - Len(a) + 1, Len(b)) = a

\* C14 as stated: executeSingleToolCall never raises to its caller, and what
\* bash.exec throws comes back as a result flagged as an error whose text is
\* the message after "Error: ".
C14_SingleToolCallNeverRaises ==
    /\ single.st # "rejected"
    /\ (single.st = "fulfilled" /\ single.exec.kind = "throw") =>
           /\ single.value.isError
           /\ single.value.result = ErrorPrefix \o single.exec.message

\* C14, where the tool call has arguments (with or without a command):
\* executeSingleToolCall does not raise, and what bash.exec throws comes back
\* as a result flagged as an error.
C14_NeverRaisesGivenArguments ==
    /\ (single.st = "rejected") => toolCall.arguments.type # "object"
    /\ (single.st = "fulfilled" /\ single.exec.kind = "throw") =>
           /\ single.value.isError
           /\ single.value.result = ErrorPrefix \o single.exec.message

\* C15 as stated: a non-zero exit status gives isError = true and a result
\* that ends with the marker "exit code: <n>"; a zero exit status gives
\* isError = false.
C15_NonZeroExitIsMarked ==
    (single.st = "fulfilled" /\ single.exec.kind = "exit") =>
        /\ single.exec.exitCode # 0 =>
               /\ single.value.isError
               /\ IsSuffix(ExitCodeMarker(single.exec.exitCode), single.value.result)
        /\ single.exec.exitCode = 0 => ~single.value.isError

\* The whole text of an execution that exited: stdout, stderr and the marker.
WholeText(r) ==
    r.stdout
        \o (IF r.stderr # <<>>
            THEN <<"\n", "s", "t", "d", "e", "r", "r", ":", " ">> \o r.stderr ELSE <<>>)
        \o (IF r.exitCode # 0 THEN ExitCodeMarker(r.exitCode) ELSE <<>>)

\* C15, the part that holds: isError is true exactly on a non-zero exit
\* status, and the result ends with the marker when the whole text is no
\* longer than toolResultMaxChars.
C15_MarkedWhenNotTruncated ==
    (single.st = "fulfilled" /\ single.exec.kind = "exit") =>
        /\ single.value.isError <=> single.exec.exitCode # 0
        /\ (single.exec.exitCode # 0
              /\ Num(Len(WholeText(single.exec))) <= CONFIG.toolResultMaxChars) =>
               IsSuffix(ExitCodeMarker(single.exec.exitCode), single.value.result)

\* C16 as stated: every result of executeSingleToolCall is at most
\* toolResultMaxChars long.
C16_OutputTextBounded ==
    single.st = "fulfilled" =>
        Num(Len(single.value.result)) <= CONFIG.toolResultMaxChars

\* C16, the part that holds: the result of an execution that exited, with
\* status zero or not, is at most toolResultMaxChars long.
C16_BoundedWhenExecExits ==
    (single.st = "fulfilled" /\ single.exec.kind = "exit") =>
        Num(Len(single.value.result)) <= CONFIG.toolResultMaxChars

Ellipsis == <<".", ".", ".">>

Started == {k \in DOMAIN calls : calls[k].st # "threw"}

\* C17: every tool call whose execution was started has one info notification
\* of its own, emitted in the step that started it and before any later one,
\* made of the name of the tool and of the first toolCallPreviewChars
\* characters of the command, with "..." after them exactly when the command
\* is longer than toolCallPreviewChars; there is no other notification.
C17_OneNotificationBeforeEachCall ==
    /\ \A k \in Started :
           LET t == items[calls[k].index + 1]
               command == t.arguments.command.chars
               n == calls[k].notified
               shown == Min(Len(command), CONFIG.toolCallPreviewChars \div 2)
           IN /\ n \in DOMAIN notifications
              /\ notifications[n].level = "info"
              /\ notifications[n].name = t.name
              /\ notifications[n].preview = SubSeq(command, 1, shown)
              /\ notifications[n].suffix \in {<<>>, Ellipsis}
              /\ notifications[n].suffix = Ellipsis
                     <=> Num(Len(command)) > CONFIG.toolCallPreviewChars
    /\ \A a, b \in Started : a # b => calls[a].notified # calls[b].notified
    /\ Len(notifications) = Cardinality(Started)

\* C17 witness: under a limit of one character two tool calls were started,
\* the first with a command of two characters, shown as its first character
\* and "...", the second with a command of one character, shown whole; one of
\* the calls has ended.
C17_Witness ==
    /\ mapper = "tool"
    /\ CONFIG.toolCallPreviewChars = Num(1)
    /\ Len(notifications) = 2
    /\ notifications[1].preview = <<"l">>
    /\ notifications[1].suffix = Ellipsis
    /\ notifications[2].preview = <<"l">>
    /\ notifications[2].suffix = <<>>
    /\ \E k \in DOMAIN calls : calls[k].st = "fulfilled"

----------------------------------------------------------------------------
\* selectCompactionModel (MODEL SELECTION section), called once with any
\* registry and any session model, under a config.json that lists the
\* candidates.

Model(provider, id, name) == [provider |-> provider, id |-> id, name |-> name]

\* The models a registry can hold, no two with the same provider and id.
RegistryModels ==
    {Model(<<"a">>, <<"m">>, "r1"), Model(<<"a">>, <<"n">>, "r2"),
     Model(<<"b">>, <<"m">>, "r3")}

SessionModels == {Model(<<"s">>, <<"m">>, "session")}

\* What getApiKey resolves to: undefined, the empty string, a key.
KeyValues == {NoString, StringValue(<<>>), StringValue(<<"k">>)}

DistinctSeqs(S, n) ==
    {q \in SeqsUpTo(S, n) : \A a, b \in DOMAIN q : a # b => q[a] # q[b]}

\* A registry: what getAll() returns and what getApiKey resolves to for each
\* model it can be asked about.
Registries(session) ==
    UNION {{[models |-> ms, apiKeys |-> ks] :
               ks \in [{ms[k].name : k \in DOMAIN ms}
                          \cup (IF session = NoModel THEN {} ELSE {session.name})
                       -> KeyValues]} :
              ms \in DistinctSeqs(RegistryModels, MaxRegistry)}

\* The entries of compactionModels tried in config.json.
RawCandidates ==
    {[provider |-> StringValue(<<"a">>), id |-> StringValue(<<"m">>),
      thinkingLevel |-> NoString],
     [provider |-> StringValue(<<"a">>), id |-> StringValue(<<"m">>),
      thinkingLevel |-> StringValue(<<"L", "o", "w">>)],
     [provider |-> StringValue(<<"b">>), id |-> StringValue(<<"m">>),
      thinkingLevel |-> NoString]}

SelectParsedConfigs ==
    {[EmptyParsed EXCEPT !.compactionModels = ArrayValue(ms), !.thinkingLevel = t] :
        ms \in SeqsUpTo(RawCandidates, MaxCandidates),
        t \in {NoString, StringValue(<<" ", "H", "i", "g", "h">>)}}

InitSelect ==
    /\ CONFIG \in {loadConfig(parsed) : parsed \in SelectParsedConfigs}
    /\ items = <<>>
    /\ concurrency = 0
    /\ mapper = "tool"
    /\ PoolIdle
    /\ notifications = <<>>
    /\ LoopIdle
    /\ ToolIdle
    /\ sessionModel \in {NoModel} \cup SessionModels
    /\ modelRegistry \in Registries(sessionModel)
    /\ SelectIdle
    /\ llmMessages = <<>>
    /\ FileOpsIdle
    /\ LaterIdle

MinOf(S) == CHOOSE x \in S : \A y \in S : x <= y

\* A find that matches on the provider alone: a mutant.
FindByProvider(cfg) ==
    LET ms == modelRegistry.models
        hits == {k \in DOMAIN ms : ms[k].provider = cfg.provider}
    IN IF hits = {} THEN NoModel ELSE ms[MinOf(hits)]

\* modelRegistry.getAll().find((m) => m.provider === cfg.provider && m.id === cfg.id)
FindRegistryModel(cfg) ==
    LET ms == modelRegistry.models
        hits == {k \in DOMAIN ms : ms[k].provider = cfg.provider /\ ms[k].id = cfg.id}
    IN IF hits = {} THEN NoModel ELSE ms[MinOf(hits)]

\* A test of the key against undefined only: a mutant.
KeyDefined(key) == key.type = "string"

\* if (key): the key is a string that is not empty.
KeyPresent(key) == key.type = "string" /\ key.chars # <<>>

ModelSelection(model, apiKey, thinkingLevel) ==
    [null |-> FALSE, model |-> model, apiKey |-> apiKey, thinkingLevel |-> thinkingLevel]

\* A scan that leaves the for loop at the first candidate without a registry
\* model: a mutant.
SelectFromBreaking(i, asked) ==
    IF i <= Len(CONFIG.compactionModels)
       /\ FindRegistryModel(CONFIG.compactionModels[i]) # NoModel
    THEN [st |-> "awaiting", at |-> i,
          asked |-> Append(asked, FindRegistryModel(CONFIG.compactionModels[i])),
          value |-> Null]
    ELSE IF sessionModel # NoModel
    THEN [st |-> "awaiting", at |-> Len(CONFIG.compactionModels) + 1,
          asked |-> Append(asked, sessionModel), value |-> Null]
    ELSE [st |-> "fulfilled", at |-> Len(CONFIG.compactionModels) + 1,
          asked |-> asked, value |-> Null]

\* One synchronous run of selectCompactionModel from candidate i of the for
\* loop: it skips the candidates without a registry model, and calls getApiKey
\* for the first that has one, else for the session model, to await it; or it
\* returns null.
RECURSIVE SelectFrom(_, _)
SelectFrom(i, asked) ==
    IF i <= Len(CONFIG.compactionModels)
    THEN LET registryModel == FindRegistryModel(CONFIG.compactionModels[i])
         IN IF registryModel = NoModel
            THEN SelectFrom(i + 1, asked)
            ELSE [st |-> "awaiting", at |-> i,
                  asked |-> Append(asked, registryModel), value |-> Null]
    ELSE IF sessionModel # NoModel
    THEN [st |-> "awaiting", at |-> i,
          asked |-> Append(asked, sessionModel), value |-> Null]
    ELSE [st |-> "fulfilled", at |-> i, asked |-> asked, value |-> Null]

\* selectCompactionModel(modelRegistry, sessionModel) is called.
SelectCompactionModel ==
    /\ selection.st = "idle"
    /\ selection' = SelectFrom(1, <<>>)
    /\ UNCHANGED <<CONFIG, poolVars, notifications, loopVars, toolVars, modelRegistry,
                   sessionModel, fileOpsVars, laterVars>>

\* await modelRegistry.getApiKey(...) returns: the model asked about is
\* returned with its key, or the scan goes on.
GetApiKeyReturns ==
    /\ selection.st = "awaiting"
    /\ LET i == selection.at
           model == selection.asked[Len(selection.asked)]
           key == modelRegistry.apiKeys[model.name]
       IN selection' =
              IF i <= Len(CONFIG.compactionModels)
              THEN IF KeyPresent(key)
                   THEN [selection EXCEPT
                            !.st = "fulfilled",
                            !.value = ModelSelection(model, key,
                                Coalesce(CONFIG.compactionModels[i].thinkingLevel,
                                         StringValue(CONFIG.thinkingLevel)).chars)]
                   ELSE SelectFrom(i + 1, selection.asked)
              ELSE IF KeyPresent(key)
                   THEN [selection EXCEPT
                            !.st = "fulfilled",
                            !.value = ModelSelection(model, key, CONFIG.thinkingLevel)]
                   ELSE [selection EXCEPT !.st = "fulfilled", !.value = Null]
    /\ UNCHANGED <<CONFIG, poolVars, notifications, loopVars, toolVars, modelRegistry,
                   sessionModel, fileOpsVars, laterVars>>

NextSelect ==
    \/ SelectCompactionModel
    \/ GetApiKeyReturns

SpecSelect == InitSelect /\ [][NextSelect]_vars

----------------------------------------------------------------------------
\* Properties of selectCompactionModel (checked under SpecSelect).

Candidates == CONFIG.compactionModels

\* The registry models that match candidate j on provider and id.
Matching(j) ==
    {m \in Range(modelRegistry.models) :
        m.provider = Candidates[j].provider /\ m.id = Candidates[j].id}

\* A credential that is there: a key of at least one character.
Credential(key) == key \in {StringValue(<<"k">>)}

\* Candidate j has a registry model and that model has a credential.
Usable(j) ==
    \E m \in Matching(j) : Credential(modelRegistry.apiKeys[m.name])

UsableCandidates == {j \in DOMAIN Candidates : Usable(j)}

\* C18: when some candidate has a registry model and a credential, what
\* selectCompactionModel returns is made of the first such candidate in listed
\* order: the registry model that matches its provider and id, the credential
\* of that model, and the thinking level of the candidate or, when it has
\* none, of the configuration.
C18_FirstUsableCandidateWins ==
    (selection.st = "fulfilled" /\ UsableCandidates # {}) =>
        LET j == MinOf(UsableCandidates)
            value == selection.value
        IN /\ ~value.null
           /\ value.model \in Matching(j)
           /\ value.apiKey = modelRegistry.apiKeys[value.model.name]
           /\ Credential(value.apiKey)
           /\ value.thinkingLevel =
                  (IF Candidates[j].thinkingLevel.type = "string"
                   THEN Candidates[j].thinkingLevel.chars
                   ELSE CONFIG.thinkingLevel)
           /\ \A e \in 1..(j - 1) : ~Usable(e)

\* C18 witness: the second candidate won, with its own thinking level, after
\* a first candidate whose registry model has no credential.
C18_Witness ==
    /\ selection.st = "fulfilled"
    /\ Len(Candidates) = 2
    /\ Matching(1) # {}
    /\ ~Usable(1)
    /\ Usable(2)
    /\ selection.value.model \in Matching(2)
    /\ selection.value.thinkingLevel = <<"l", "o", "w">>
    /\ CONFIG.thinkingLevel = <<"h", "i", "g", "h">>

\* C19: when no candidate has both a registry model and a credential, what
\* selectCompactionModel returns is the session model with its credential and
\* the thinking level of the configuration if there is a session model and it
\* has a credential, and null otherwise; the call never raises.
C19_SessionModelOrNull ==
    /\ selection.st \in {"idle", "awaiting", "fulfilled"}
    /\ (selection.st = "fulfilled" /\ UsableCandidates = {}) =>
           IF sessionModel # NoModel /\ Credential(modelRegistry.apiKeys[sessionModel.name])
           THEN selection.value =
                    ModelSelection(sessionModel, modelRegistry.apiKeys[sessionModel.name],
                                   CONFIG.thinkingLevel)
           ELSE selection.value = Null
    /\ (selection.st = "fulfilled" /\ Candidates = <<>> /\ sessionModel = NoModel) =>
           selection.value = Null

\* C19 witness: two candidates, one without a registry model and one without
\* a credential, and the session model was returned.
C19_Witness ==
    /\ selection.st = "fulfilled"
    /\ Len(Candidates) = 2
    /\ Matching(1) = {}
    /\ Matching(2) # {}
    /\ UsableCandidates = {}
    /\ selection.value.model = sessionModel
    /\ sessionModel # NoModel

----------------------------------------------------------------------------
\* detectFileOpsFromConversation (UTILITY FUNCTIONS section), applied to any
\* conversation of a few messages.

\* An LlmContentBlock and an LlmMessage; a field that is absent is NoString,
\* an absent content is the empty array, an absent isError is FALSE.
LlmContentBlock(type, id, name, arguments) ==
    [type |-> type, id |-> id, name |-> name, arguments |-> arguments]

LlmMessage(role, content, toolCallId, isError) ==
    [role |-> role, content |-> content, toolCallId |-> toolCallId, isError |-> isError]

\* The arguments of a tool call: an object with a path (a string, a value
\* that is no string, or none), or nothing.
PathArguments(path) == [type |-> "object", path |-> path]

NoArguments == [type |-> "undefined", path |-> NoString]

NumberPath == [type |-> "number", chars |-> <<>>]

WriteName == <<"w", "r", "i", "t", "e">>

EditName == <<"e", "d", "i", "t">>

ReadName == <<"r", "e", "a", "d">>

ToolCallBlock(id, name, path) ==
    LlmContentBlock("toolCall", id, StringValue(name), PathArguments(path))

TextBlock == LlmContentBlock("text", NoString, NoString, NoArguments)

AssistantTurn(content) == LlmMessage("assistant", content, NoString, FALSE)

ToolResultTurn(toolCallId, isError) == LlmMessage("toolResult", <<>>, toolCallId, isError)

\* The messages a conversation is made of: assistant turns with a tool call
\* (write, edit, read and a name that is no string; ids "1" and "2", or none;
\* a path with white space
\* before it, an empty path, a path that is a number; one turn with two tool
\* calls, the second on a path that looks temporary), tool results (passed
\* and failed, with a known, an unknown and a missing id), a user turn.
ConversationMessages ==
    {AssistantTurn(<<ToolCallBlock(StringValue(<<"1">>), WriteName,
                                   StringValue(<<" ", "p">>))>>),
     AssistantTurn(<<ToolCallBlock(StringValue(<<"1">>), ReadName, StringValue(<<"p">>))>>),
     AssistantTurn(<<TextBlock,
                     ToolCallBlock(StringValue(<<"1">>), EditName, StringValue(<<"p">>))>>),
     AssistantTurn(<<ToolCallBlock(StringValue(<<"2">>), EditName, StringValue(<<"q">>))>>),
     AssistantTurn(<<ToolCallBlock(StringValue(<<"2">>), WriteName, StringValue(<<>>))>>),
     AssistantTurn(<<ToolCallBlock(StringValue(<<"2">>), WriteName, NumberPath)>>),
     AssistantTurn(<<ToolCallBlock(NoString, WriteName, StringValue(<<"p">>))>>),
     AssistantTurn(<<LlmContentBlock("toolCall", StringValue(<<"2">>), NoString,
                                     PathArguments(StringValue(<<"q">>)))>>),
     AssistantTurn(<<ToolCallBlock(StringValue(<<"1">>), WriteName,
                                   StringValue(<<" ", "p">>)),
                     ToolCallBlock(StringValue(<<"2">>), EditName,
                                   StringValue(<<"t", ".", "t", "m", "p">>))>>),
     ToolResultTurn(StringValue(<<"1">>), FALSE),
     ToolResultTurn(StringValue(<<"1">>), TRUE),
     ToolResultTurn(StringValue(<<"2">>), FALSE),
     ToolResultTurn(StringValue(<<"3">>), FALSE),
     ToolResultTurn(NoString, FALSE),
     LlmMessage("user", <<TextBlock>>, NoString, FALSE)}

\* A set that keeps the value the key already has: a mutant.
MapSetIfAbsent(map, k, v) ==
    [x \in DOMAIN map \cup {k} |-> IF x \in DOMAIN map THEN map[x] ELSE v]

\* Map.set(k, v)
MapSet(map, k, v) == [x \in DOMAIN map \cup {k} |-> IF x = k THEN v ELSE map[x]]

\* new Map()
EmptyMap == [x \in {} |-> NoArguments]

\* The inner loop of extractToolCallsFromMessages, over the blocks of one
\* assistant message.
RECURSIVE IndexBlocks(_, _)
IndexBlocks(blocks, toolCallsById) ==
    IF blocks = <<>> THEN toolCallsById
    ELSE LET block == Head(blocks)
         IN IndexBlocks(Tail(blocks),
                IF block.type # "toolCall" THEN toolCallsById
                ELSE IF block.id.type # "string" \/ block.name.type # "string"
                THEN toolCallsById
                ELSE MapSet(toolCallsById, block.id.chars,
                            [name |-> block.name.chars,
                             args |-> IF block.arguments.type = "undefined"
                                      THEN PathArguments(NoString)
                                      ELSE block.arguments]))

\* The outer loop of extractToolCallsFromMessages.
RECURSIVE IndexMessages(_, _)
IndexMessages(msgs, toolCallsById) ==
    IF msgs = <<>> THEN toolCallsById
    ELSE IndexMessages(Tail(msgs),
             IF Head(msgs).role # "assistant" THEN toolCallsById
             ELSE IndexBlocks(Head(msgs).content, toolCallsById))

extractToolCallsFromMessages(msgs) == IndexMessages(msgs, EmptyMap)

\* Every tool taken for one that modifies files: a mutant.
IsAnyTool(toolName) == TRUE

\* toolName === "write" || toolName === "edit"
IsMutatingTool(toolName) == toolName \in {WriteName, EditName}

\* extractModifiedPathFromToolResult: the path, or undefined.
extractModifiedPathFromToolResult(msg, toolCallsById) ==
    IF msg.toolCallId.type # "string" THEN NoString
    ELSE IF msg.toolCallId.chars \notin DOMAIN toolCallsById THEN NoString
    ELSE LET toolCall_ == toolCallsById[msg.toolCallId.chars]
         IN IF ~IsMutatingTool(toolCall_.name) THEN NoString
            ELSE IF toolCall_.args.path.type = "string" THEN toolCall_.args.path
            ELSE NoString

\* The values of a sequence as they are, repeated ones included: a mutant.
UniqKeepingAll(values) == values

\* The values of a sequence, each once, in the order of their first
\* occurrence: [...new Set(values)].
RECURSIVE Uniq(_)
Uniq(values) ==
    IF values = <<>> THEN <<>>
    ELSE LET front == Uniq(SubSeq(values, 1, Len(values) - 1))
             last == values[Len(values)]
         IN IF last \in Range(front) THEN front ELSE Append(front, last)

\* uniqStrings: trimmed, without the empty ones, each once.
uniqStrings(values) ==
    Uniq(SelectSeq([k \in DOMAIN values |-> Trim(values[k])], LAMBDA v : v # <<>>))

\* A for loop in which a failed result takes the path of its tool call out
\* of what was collected before it: a mutant.
RECURSIVE CollectModifiedUndoneByFailure(_, _)
CollectModifiedUndoneByFailure(msgs, toolCallsById) ==
    IF msgs = <<>> THEN <<>>
    ELSE LET msg == msgs[Len(msgs)]
             front == CollectModifiedUndoneByFailure(SubSeq(msgs, 1, Len(msgs) - 1),
                                                     toolCallsById)
             modifiedPath == extractModifiedPathFromToolResult(msg, toolCallsById)
         IN IF msg.role # "toolResult" \/ modifiedPath.type # "string"
               \/ modifiedPath.chars = <<>>
            THEN front
            ELSE IF msg.isError
            THEN SelectSeq(front, LAMBDA v : v # modifiedPath.chars)
            ELSE Append(front, modifiedPath.chars)

\* The for loop of detectFileOpsFromConversation: the paths pushed to
\* modifiedFiles.
RECURSIVE CollectModified(_, _)
CollectModified(msgs, toolCallsById) ==
    IF msgs = <<>> THEN <<>>
    ELSE LET msg == Head(msgs)
             rest == CollectModified(Tail(msgs), toolCallsById)
         IN IF msg.role # "toolResult" \/ msg.isError THEN rest
            ELSE LET modifiedPath == extractModifiedPathFromToolResult(msg, toolCallsById)
                 IN IF modifiedPath.type = "string" /\ modifiedPath.chars # <<>>
                    THEN <<modifiedPath.chars>> \o rest
                    ELSE rest

\* A detection that takes an edit for a deletion: a mutant.
detectTakingEditsForDeletions(msgs) ==
    LET toolCallsById == extractToolCallsFromMessages(msgs)
        modified == uniqStrings(CollectModified(msgs, toolCallsById))
        deleted == SelectSeq(modified,
                       LAMBDA v : \E id \in DOMAIN toolCallsById :
                                     /\ toolCallsById[id].name = EditName
                                     /\ toolCallsById[id].args.path.type = "string"
                                     /\ Trim(toolCallsById[id].args.path.chars) = v)
    IN [modifiedFiles |-> SelectSeq(modified, LAMBDA v : v \notin Range(deleted)),
        deletedFiles |-> deleted]

\* A detection that reports every modified path as deleted too: a mutant.
detectReportingDeleted(msgs) ==
    LET modified == uniqStrings(CollectModified(msgs, extractToolCallsFromMessages(msgs)))
    IN [modifiedFiles |-> modified, deletedFiles |-> modified]

detectFileOpsFromConversation(msgs) ==
    LET toolCallsById == extractToolCallsFromMessages(msgs)
        modifiedFiles == CollectModified(msgs, toolCallsById)
        deletedFiles == <<>>
        deleted == uniqStrings(deletedFiles)
        modified == SelectSeq(uniqStrings(modifiedFiles),
                              LAMBDA v : v \notin Range(deleted))
    IN [modifiedFiles |-> modified, deletedFiles |-> deleted]

\* String.prototype.startsWith, endsWith and includes.
startsWith(s, search) ==
    Len(search) <= Len(s) /\ \A k \in DOMAIN search : s[k] = search[k]

endsWith(s, search) ==
    Len(search) <= Len(s)
    /\ \A k \in DOMAIN search : s[Len(s) - Len(search) + k] = search[k]

includes(s, search) ==
    \E start \in 0..(Len(s) - Len(search)) :
        \A k \in DOMAIN search : s[start + k] = search[k]

\* The basename of a path that is the path itself: a mutant.
basenameKeepingDirectories(p) == p

\* path.basename of a path with "/" as the separator: the slashes at the end
\* are left out, and what follows the last slash before them is returned.
RECURSIVE basename(_)
basename(p) ==
    IF p = <<>> THEN <<>>
    ELSE IF p[Len(p)] = "/" THEN basename(SubSeq(p, 1, Len(p) - 1))
    ELSE IF "/" \in Range(p) THEN basename(Tail(p))
    ELSE p

isLikelyTempArtifactPath(path) ==
    LET normalized == Trim(path)
        base == ToLowerCase(basename(normalized))
    IN IF normalized = <<>> THEN FALSE
       ELSE IF startsWith(base, <<"_", "_", "t", "m", "p">>) THEN TRUE
       ELSE IF endsWith(base, <<".", "t", "m", "p">>) THEN TRUE
       ELSE IF includes(base, <<".", "t", "m", "p", ".">>) THEN TRUE
       ELSE FALSE

\* The lines of the template of buildFileOpsContext.
ContextTitle ==
    <<"#", "#", " ", "D", "e", "t", "e", "r", "m", "i", "n", "i", "s", "t", "i", "c",
      " ", "M", "o", "d", "i", "f", "i", "e", "d", " ", "F", "i", "l", "e", "s", " ",
      "(", "t", "o", "o", "l", "-", "r", "e", "s", "u", "l", "t", " ", "v", "e", "r",
      "i", "f", "i", "e", "d", ")">>

\* The second line of the template.
ContextPairing ==
    <<"T", "h", "e", " ", "e", "x", "t", "e", "n", "s", "i", "o", "n", " ", "e", "x",
      "t", "r", "a", "c", "t", "e", "d", " ", "t", "h", "e", "s", "e", " ", "b", "y",
      " ", "p", "a", "i", "r", "i", "n", "g", " ", "t", "o", "o", "l", " ", "c", "a",
      "l", "l", "s", " ", "w", "i", "t", "h", " ", "s", "u", "c", "c", "e", "s", "s",
      "f", "u", "l", " ", "t", "o", "o", "l", " ", "r", "e", "s", "u", "l", "t", "s",
      ".">>

\* The third line of the template.
ContextAdvice ==
    <<"U", "s", "e", " ", "t", "h", "e", " ", "'", "R", "e", "l", "e", "v", "a", "n",
      "t", " ", "m", "o", "d", "i", "f", "i", "e", "d", " ", "f", "i", "l", "e", "s",
      "'", " ", "s", "e", "c", "t", "i", "o", "n", " ", "f", "o", "r", " ", "t", "h",
      "e", " ", "c", "o", "m", "p", "a", "c", "t", "i", "o", "n", " ", "s", "u", "m",
      "m", "a", "r", "y", " ", "u", "n", "l", "e", "s", "s", " ", "t", "h", "e", " ",
      "u", "s", "e", "r", " ", "e", "x", "p", "l", "i", "c", "i", "t", "l", "y", " ",
      "a", "s", "k", "s", " ", "a", "b", "o", "u", "t", " ", "t", "e", "m", "p", " ",
      "a", "r", "t", "i", "f", "a", "c", "t", "s", ".">>

\* The heading of the modified files that do not look temporary.
RelevantHeading ==
    <<"#", "#", "#", " ", "R", "e", "l", "e", "v", "a", "n", "t", " ", "m", "o", "d",
      "i", "f", "i", "e", "d", " ", "f", "i", "l", "e", "s">>

\* The heading of the modified files that look temporary.
OtherHeading ==
    <<"#", "#", "#", " ", "O", "t", "h", "e", "r", " ", "m", "o", "d", "i", "f", "i",
      "e", "d", " ", "a", "r", "t", "i", "f", "a", "c", "t", "s", " ", "(", "l", "i",
      "k", "e", "l", "y", " ", "t", "e", "m", "p", "o", "r", "a", "r", "y", ";", " ",
      "e", "x", "c", "l", "u", "d", "e", " ", "f", "r", "o", "m", " ", "s", "u", "m",
      "m", "a", "r", "y", " ", "b", "y", " ", "d", "e", "f", "a", "u", "l", "t", ")">>

\* The heading of the deleted paths.
DeletedHeading ==
    <<"#", "#", "#", " ", "D", "e", "l", "e", "t", "e", "d", " ", "p", "a", "t", "h",
      "s", " ", "(", "b", "e", "s", "t", " ", "e", "f", "f", "o", "r", "t", ")">>

\* The default text of the three lists.
NoneDetected ==
    <<"-", " ", "(", "n", "o", "n", "e", " ", "d", "e", "t", "e", "c", "t", "e", "d",
      ")">>

\* A list that is empty when there are no files: a mutant.
formatFileListWithoutDefault(files, defaultText) ==
    Join([k \in DOMAIN files |-> <<"-", " ">> \o files[k]], <<"\n">>)

formatFileList(files, defaultText) ==
    IF Len(files) > 0
    THEN Join([k \in DOMAIN files |-> <<"-", " ">> \o files[k]], <<"\n">>)
    ELSE defaultText

buildFileOpsContext(msgs) ==
    LET detectedFileOps == detectFileOpsFromConversation(msgs)
        relevantModifiedFiles ==
            SelectSeq(detectedFileOps.modifiedFiles,
                      LAMBDA v : ~isLikelyTempArtifactPath(v))
        tempLikeModifiedFiles ==
            SelectSeq(detectedFileOps.modifiedFiles,
                      LAMBDA v : isLikelyTempArtifactPath(v))
        relevantFilesList == formatFileList(relevantModifiedFiles, NoneDetected)
        tempFilesList == formatFileList(tempLikeModifiedFiles, NoneDetected)
        deletedFilesList == formatFileList(detectedFileOps.deletedFiles, NoneDetected)
    IN Concat(<<ContextTitle, <<"\n">>, ContextPairing, <<"\n">>, ContextAdvice,
                <<"\n", "\n">>, RelevantHeading, <<"\n">>, relevantFilesList,
                <<"\n", "\n">>, OtherHeading, <<"\n">>, tempFilesList,
                <<"\n", "\n">>, DeletedHeading, <<"\n">>, deletedFilesList>>)

InitFileOps ==
    /\ CONFIG = DEFAULT_CONFIG
    /\ items = <<>>
    /\ concurrency = 0
    /\ mapper = "tool"
    /\ PoolIdle
    /\ notifications = <<>>
    /\ LoopIdle
    /\ ToolIdle
    /\ modelRegistry = <<>>
    /\ sessionModel = NoModel
    /\ SelectIdle
    /\ llmMessages \in SeqsUpTo(ConversationMessages, MaxMessages)
    /\ FileOpsIdle
    /\ LaterIdle

\* detectFileOpsFromConversation(llmMessages) is called and returns.
DetectFileOps ==
    /\ fileOps.st = "idle"
    /\ fileOps' = [st |-> "returned",
                   modifiedFiles |-> detectFileOpsFromConversation(llmMessages).modifiedFiles,
                   deletedFiles |-> detectFileOpsFromConversation(llmMessages).deletedFiles]
    /\ UNCHANGED <<CONFIG, poolVars, notifications, loopVars, toolVars, selectVars,
                   llmMessages, laterVars>>

\* detectFileOpsFromConversation(llmMessages) is called a second time.
DetectAgain ==
    /\ fileOps.st = "returned"
    /\ fileOps' = [st |-> "repeated",
                   modifiedFiles |-> detectFileOpsFromConversation(llmMessages).modifiedFiles,
                   deletedFiles |-> detectFileOpsFromConversation(llmMessages).deletedFiles]
    /\ UNCHANGED <<CONFIG, poolVars, notifications, loopVars, toolVars, selectVars,
                   llmMessages, laterVars>>

\* The ids a tool call appended to the conversation can have: those of the
\* conversation's tool calls and tool results, and one that is new.
AppendedIds == {<<"1">>, <<"2">>, <<"3">>, <<"4">>}

\* The conversation goes on with a write or edit of a path that was reported
\* and with the failed result of that tool call, and
\* detectFileOpsFromConversation is called on the longer conversation.
AppendFailedCall ==
    /\ fileOps.st = "returned"
    /\ Len(llmMessages) <= MaxMessages
    /\ \E path \in Range(fileOps.modifiedFiles) :
       \E id \in AppendedIds :
       \E toolName \in {WriteName, EditName} :
          LET longer == llmMessages \o
                  <<AssistantTurn(<<ToolCallBlock(StringValue(id), toolName,
                                                  StringValue(path))>>),
                    ToolResultTurn(StringValue(id), TRUE)>>
          IN /\ llmMessages' = longer
             /\ fileOps' = [st |-> "appended",
                            modifiedFiles |->
                                detectFileOpsFromConversation(longer).modifiedFiles,
                            deletedFiles |->
                                detectFileOpsFromConversation(longer).deletedFiles]
    /\ UNCHANGED <<CONFIG, poolVars, notifications, loopVars, toolVars, selectVars,
                   laterVars>>

\* buildFileOpsContext(llmMessages) is called and returns: fileOps is its
\* detectedFileOps.
BuildFileOpsContext ==
    /\ fileOps.st = "idle"
    /\ fileOpsContext.st = "idle"
    /\ fileOps' = [st |-> "built",
                   modifiedFiles |-> detectFileOpsFromConversation(llmMessages).modifiedFiles,
                   deletedFiles |-> detectFileOpsFromConversation(llmMessages).deletedFiles]
    /\ fileOpsContext' = [st |-> "returned", text |-> buildFileOpsContext(llmMessages)]
    /\ UNCHANGED <<CONFIG, poolVars, notifications, loopVars, toolVars, selectVars,
                   llmMessages, tempVars, noteVars, handlerVars>>

NextFileOps ==
    \/ DetectFileOps
    \/ DetectAgain
    \/ AppendFailedCall
    \/ BuildFileOpsContext

SpecFileOps == InitFileOps /\ [][NextFileOps]_vars

----------------------------------------------------------------------------
\* Properties of detectFileOpsFromConversation (checked under SpecFileOps).

\* The tool-call blocks of the assistant messages that have a string id and a
\* string name, as (message, block) positions.
IndexedBlocks ==
    {<<a, b>> \in (DOMAIN llmMessages) \X (1..2) :
        /\ llmMessages[a].role = "assistant"
        /\ b \in DOMAIN llmMessages[a].content
        /\ llmMessages[a].content[b].type = "toolCall"
        /\ llmMessages[a].content[b].id.type = "string"
        /\ llmMessages[a].content[b].name.type = "string"}

Later(x, y) == x[1] > y[1] \/ (x[1] = y[1] /\ x[2] >= y[2])

\* The positions of the tool calls the results with id resolve to: of the
\* indexed blocks with that id, the last of the conversation.
ResolvedBlocks(id) ==
    {x \in IndexedBlocks :
        /\ llmMessages[x[1]].content[x[2]].id = id
        /\ \A y \in IndexedBlocks :
               llmMessages[y[1]].content[y[2]].id = id => Later(x, y)}

\* The string paths of the write and edit tool calls that a tool result
\* which does not signal failure resolves to.
ModifiedPathArguments ==
    {llmMessages[x[1]].content[x[2]].arguments.path.chars :
        x \in {y \in UNION {ResolvedBlocks(llmMessages[r].toolCallId) :
                              r \in {k \in DOMAIN llmMessages :
                                        /\ llmMessages[k].role = "toolResult"
                                        /\ ~llmMessages[k].isError
                                        /\ llmMessages[k].toolCallId.type = "string"}} :
                  /\ llmMessages[y[1]].content[y[2]].name.chars \in {WriteName, EditName}
                  /\ llmMessages[y[1]].content[y[2]].arguments.path.type = "string"}}

\* C20 as stated: the paths of modifiedFiles are exactly the string path
\* arguments of the write and edit tool calls that a passed tool result
\* resolves to.
C20_ModifiedIffPassedWriteOrEdit ==
    fileOps.st = "returned" => Range(fileOps.modifiedFiles) = ModifiedPathArguments

\* C20 as amended: the paths of modifiedFiles are exactly those path
\* arguments trimmed of the white space around them, the ones that are empty
\* after trimming left out.
C20_ModifiedIffTrimmedNonEmptyPath ==
    fileOps.st = "returned" =>
        Range(fileOps.modifiedFiles) =
            {Trim(path) : path \in ModifiedPathArguments} \ {<<>>}

\* C20 witness: a conversation of a failed result, a write call and a passed
\* result of that call, whose path is reported.
C20_Witness ==
    /\ fileOps.st = "returned"
    /\ Len(llmMessages) = 3
    /\ llmMessages[1].role = "toolResult"
    /\ llmMessages[1].isError
    /\ llmMessages[2].role = "assistant"
    /\ llmMessages[3].role = "toolResult"
    /\ fileOps.modifiedFiles = <<<<"p">>>>

\* The positions of the tool results that qualify for path: results that do
\* not signal failure and resolve to a write or edit whose path argument is a
\* string that is path once trimmed.
QualifyingResults(path) ==
    {r \in DOMAIN llmMessages :
        /\ llmMessages[r].role = "toolResult"
        /\ ~llmMessages[r].isError
        /\ llmMessages[r].toolCallId.type = "string"
        /\ \E x \in ResolvedBlocks(llmMessages[r].toolCallId) :
               /\ llmMessages[x[1]].content[x[2]].name.chars \in {WriteName, EditName}
               /\ llmMessages[x[1]].content[x[2]].arguments.path.type = "string"
               /\ Trim(llmMessages[x[1]].content[x[2]].arguments.path.chars) = path}

NoDuplicates(q) == \A a, b \in DOMAIN q : a # b => q[a] # q[b]

Appended == Len(llmMessages') = Len(llmMessages) + 2

AppendedPath == llmMessages'[Len(llmMessages') - 1].content[1].arguments.path.chars

AppendedId == llmMessages'[Len(llmMessages') - 1].content[1].id

PositionOf(path, q) == MinOf({k \in DOMAIN q : q[k] = path})

\* C22 as stated: a path that was reported is reported at the same position
\* after a write or edit of it and the failed result of that tool call are
\* appended.
C22_FailedCallKeepsPathInPlace ==
    [][Appended =>
          /\ AppendedPath \in Range(fileOps'.modifiedFiles)
          /\ PositionOf(AppendedPath, fileOps'.modifiedFiles)
                = PositionOf(AppendedPath, fileOps.modifiedFiles)]_vars

\* The id occurs in the conversation, as the id of a tool call or as the
\* linkage id of a tool result.
UsedId(id) ==
    \E k \in DOMAIN llmMessages :
        \/ llmMessages[k].toolCallId = id
        \/ \E b \in DOMAIN llmMessages[k].content : llmMessages[k].content[b].id = id

\* C22 as amended: the path is still reported after the failed call is
\* appended; and when the id of the appended tool call occurs nowhere in the
\* conversation before it, the report is the same as before, so the path is
\* at the same position.
C22_FailedCallKeepsPath ==
    [][Appended =>
          /\ AppendedPath \in Range(fileOps'.modifiedFiles)
          /\ (~UsedId(AppendedId) =>
                 fileOps'.modifiedFiles = fileOps.modifiedFiles)]_vars

\* C22 witness: a failed edit with a new id was appended to a conversation
\* that reported two paths, and two paths are reported.
C22_Witness ==
    /\ fileOps.st = "appended"
    /\ Len(llmMessages) = 5
    /\ llmMessages[4].content[1].id = StringValue(<<"4">>)
    /\ llmMessages[4].content[1].name = StringValue(EditName)
    /\ llmMessages[5].isError
    /\ Len(fileOps.modifiedFiles) = 2

\* C23: no path is in both lists of a report.
C23_ModifiedAndDeletedDisjoint ==
    fileOps.st # "idle" =>
        Range(fileOps.modifiedFiles) \cap Range(fileOps.deletedFiles) = {}

\* C23 witness: a report with two modified paths.
C23_Witness ==
    /\ fileOps.st = "returned"
    /\ Len(fileOps.modifiedFiles) = 2
    /\ fileOps.deletedFiles = <<>>

-----------------------------------------------------------------------------
\* isLikelyTempArtifactPath on its own: SpecTemp.

\* The names of files: with each of the three marks of a temporary file in
\* lower and in upper case, and with none of them.
BaseNames ==
    {<<"_", "_", "t", "m", "p", "x">>,
     <<"f", ".", "t", "m", "p">>,
     <<"a", ".", "t", "m", "p", ".", "b">>,
     <<"f", ".", "T", "M", "P">>,
     <<"t", "m", "p">>,
     <<"x">>,
     <<"_", "_", "T", "m", "p">>,
     <<".", "t", "m", "p">>,
     <<"f", ".", "t", "m", "p", "x">>,
     <<"A", ".", "T", "m", "p", ".", "b">>}

\* The names of directories, with and without the marks.
DirectoryNames ==
    {<<"d", "/">>,
     <<"_", "_", "t", "m", "p", "/">>,
     <<"x", ".", "t", "m", "p", "/">>,
     <<"a", ".", "t", "m", "p", ".", "b", "/">>}

\* The paths: white space or none, at most MaxDirs directories, a file name,
\* and nothing, white space or a slash at the end; and the paths that are
\* empty, white space only or a slash only.
FilePaths ==
    {leading \o Concat(dirs) \o base \o trailing :
        leading \in {<<>>, <<" ">>},
        dirs \in SeqsUpTo(DirectoryNames, MaxDirs),
        base \in BaseNames,
        trailing \in {<<>>, <<" ">>, <<"/">>, <<"/", " ">>}}
    \cup {<<>>, <<" ">>, <<" ", "\t">>, <<"/">>}

InitTemp ==
    /\ CONFIG = DEFAULT_CONFIG
    /\ items = <<>>
    /\ concurrency = 0
    /\ mapper = "tool"
    /\ PoolIdle
    /\ notifications = <<>>
    /\ LoopIdle
    /\ ToolIdle
    /\ modelRegistry = <<>>
    /\ sessionModel = NoModel
    /\ SelectIdle
    /\ llmMessages = <<>>
    /\ FileOpsIdle
    /\ filePath \in FilePaths
    /\ TempIdle
    /\ customInstructions = NoString
    /\ NoteIdle
    /\ ContextIdle
    /\ event = NoEvent
    /\ HandlerIdle

\* isLikelyTempArtifactPath(filePath) is called and returns.
IsLikelyTempArtifactPath ==
    /\ tempLike.st = "idle"
    /\ tempLike' = [st |-> "returned", value |-> isLikelyTempArtifactPath(filePath)]
    /\ UNCHANGED <<CONFIG, poolVars, notifications, loopVars, toolVars, selectVars,
                   fileOpsVars, filePath, noteVars, contextVars, handlerVars>>

NextTemp ==
    \/ IsLikelyTempArtifactPath

SpecTemp == InitTemp /\ [][NextTemp]_vars

-----------------------------------------------------------------------------
\* Properties of isLikelyTempArtifactPath (checked under SpecTemp).

\* The last component of a path: what stands between the last slash that a
\* character other than a slash follows and the slashes at the end.
LastComponent(p) ==
    LET named == {k \in DOMAIN p : p[k] # "/"}
    IN IF named = {} THEN <<>>
       ELSE LET last == CHOOSE k \in named : \A j \in named : j <= k
                first == CHOOSE k \in 1..last :
                             /\ \A j \in k..last : p[j] # "/"
                             /\ k > 1 => p[k - 1] = "/"
            IN SubSeq(p, first, last)

Blank(p) == \A k \in DOMAIN p : p[k] \in WhiteSpace

ToUpperCase(s) ==
    [k \in DOMAIN s |-> CASE s[k] = "t" -> "T" [] s[k] = "m" -> "M"
                           [] s[k] = "p" -> "P" [] OTHER -> s[k]]

\* The three marks of a temporary file on a name, whatever the case of its
\* letters.
Marked(name) ==
    \/ IsPrefix(<<"_", "_", "t", "m", "p">>, ToLowerCase(name))
    \/ IsSuffix(<<".", "t", "m", "p">>, ToLowerCase(name))
    \/ \E k \in 0..Len(name) :
           IsPrefix(<<".", "t", "m", "p", ".">>,
                    SubSeq(ToLowerCase(name), k + 1, Len(name)))

\* C24 as stated: the path is temp-like if and only if it is not blank and
\* the basename of the path as given, in lower case, has one of the marks.
C24_TempIffBasenameOfPathMarked ==
    tempLike.st = "returned" =>
        (tempLike.value <=> (~Blank(filePath) /\ Marked(LastComponent(filePath))))

\* C24 as amended: the path is temp-like if and only if it is not blank and
\* the basename of the path trimmed of the white space around it, in lower
\* case, has one of the marks; the answer is that for the basename alone and
\* that for the path in upper case.
C24_TempIffBasenameOfTrimmedPathMarked ==
    tempLike.st = "returned" =>
        /\ tempLike.value <=>
               (~Blank(filePath) /\ Marked(LastComponent(Trim(filePath))))
        /\ ~Blank(filePath) =>
               tempLike.value = isLikelyTempArtifactPath(LastComponent(Trim(filePath)))
        /\ tempLike.value = isLikelyTempArtifactPath(ToUpperCase(filePath))

\* C24 witness: a path in a directory that has a mark, with a file name in
\* upper case that has one, was found temp-like.
C24_Witness ==
    /\ tempLike.st = "returned"
    /\ tempLike.value
    /\ filePath = <<"x", ".", "t", "m", "p", "/", "f", ".", "T", "M", "P">>

-----------------------------------------------------------------------------
\* Properties of buildFileOpsContext (checked under SpecFileOps).

RECURSIVE SplitLines(_)
SplitLines(text) ==
    IF "\n" \notin Range(text) THEN <<text>>
    ELSE LET k == MinOf({j \in DOMAIN text : text[j] = "\n"})
         IN <<SubSeq(text, 1, k - 1)>> \o SplitLines(SubSeq(text, k + 1, Len(text)))

\* The lines under a heading, up to the next empty line or the end.
SectionOf(lines, heading) ==
    LET h == MinOf({k \in DOMAIN lines : lines[k] = heading})
        end == MinOf({k \in (h + 1)..Len(lines) : lines[k] = <<>>} \cup {Len(lines) + 1})
    IN SubSeq(lines, h + 1, end - 1)

\* The paths a section lists: its lines but the marker, each without its
\* dash.
ListedIn(section) ==
    LET entries == SelectSeq(section, LAMBDA l : l # NoneDetected)
    IN [k \in DOMAIN entries |-> SubSeq(entries[k], 3, Len(entries[k]))]

Section(heading) == SectionOf(SplitLines(fileOpsContext.text), heading)

Listed(heading) == ListedIn(Section(heading))

TempLike(path) == ~Blank(path) /\ Marked(LastComponent(Trim(path)))

-----------------------------------------------------------------------------
\* extractUserCompactionNote and getUserCompactionNote on their own: SpecNote.

\* A content block of type text; its text is a string or a value that is no
\* string.
TextContentBlock(text) ==
    [type |-> "text", id |-> NoString, name |-> NoString, arguments |-> NoArguments,
     text |-> text]

UserTurn(content) == LlmMessage("user", content, NoString, FALSE)

RECURSIVE BlockTexts(_)
BlockTexts(content) ==
    IF content = <<>> THEN <<>>
    ELSE LET b == Head(content)
             text == IF b.type # "text" THEN <<>>
                     ELSE IF b.text.type = "string" THEN b.text.chars
                     ELSE <<>>
         IN <<text>> \o BlockTexts(Tail(content))

\* extractTextFromLlmMessageContent: the texts of the text blocks that are
\* not empty, joined by line breaks and trimmed.
extractTextFromLlmMessageContent(content) ==
    Trim(Join(SelectSeq(BlockTexts(content), LAMBDA t : t # <<>>), <<"\n">>))

\* The characters \b takes for those of a word.
WordCharacters ==
    {"a", "b", "c", "d", "e", "f", "g", "h", "i", "j", "k", "l", "m",
     "n", "o", "p", "q", "r", "s", "t", "u", "v", "w", "x", "y", "z",
     "A", "B", "C", "D", "E", "F", "G", "H", "I", "J", "K", "L", "M",
     "N", "O", "P", "Q", "R", "S", "T", "U", "V", "W", "X", "Y", "Z",
     "0", "1", "2", "3", "4", "5", "6", "7", "8", "9", "_"}

CompactCommand == <<"/", "c", "o", "m", "p", "a", "c", "t">>

\* A match of the command at the start of the text, whatever follows it: a
\* mutant.
MatchesCompactPrefix(trimmed) ==
    /\ Len(trimmed) >= Len(CompactCommand)
    /\ ToLowerCase(SubSeq(trimmed, 1, Len(CompactCommand))) = CompactCommand

\* /^\/compact\b[ \t]*(.*)$/is matches the text: "/compact" in any case at
\* its start, followed by nothing or by a character that is not of a word.
MatchesCompact(trimmed) ==
    /\ Len(trimmed) >= Len(CompactCommand)
    /\ ToLowerCase(SubSeq(trimmed, 1, Len(CompactCommand))) = CompactCommand
    /\ Len(trimmed) > Len(CompactCommand) =>
           trimmed[Len(CompactCommand) + 1] \notin WordCharacters

RECURSIVE SkipBlanks(_)
SkipBlanks(s) ==
    IF s # <<>> /\ Head(s) \in {" ", "\t"} THEN SkipBlanks(Tail(s)) ELSE s

\* match[1]: what follows the command and the spaces and tabs after it, line
\* breaks included.
CaptureOf(trimmed) ==
    SkipBlanks(SubSeq(trimmed, Len(CompactCommand) + 1, Len(trimmed)))

\* The messages of every role: a mutant.
MessagesOfAnyRole(msgs) == msgs

UserMessagesOf(msgs) == SelectSeq(msgs, LAMBDA m : m.role = "user")

\* A note that falls back to that of the earlier messages when it is empty:
\* a mutant.
NoteOrEarlier(matched, earlier) ==
    IF Len(matched) > 0 THEN StringValue(matched) ELSE earlier

\* return note.length > 0 ? note : undefined.
NoteOrUndefined(matched, earlier) ==
    IF Len(matched) > 0 THEN StringValue(matched) ELSE NoString

\* The for loop of extractUserCompactionNote over the reversed user
\* messages: msgs is in the order of the conversation, its last message is
\* looked at first.
RECURSIVE ScanReversed(_)
ScanReversed(msgs) ==
    IF msgs = <<>> THEN NoString
    ELSE LET msg == msgs[Len(msgs)]
             earlier == SubSeq(msgs, 1, Len(msgs) - 1)
             text == extractTextFromLlmMessageContent(msg.content)
             trimmed == Trim(text)
         IN IF text = <<>> THEN ScanReversed(earlier)
            ELSE IF ~MatchesCompact(trimmed) THEN ScanReversed(earlier)
            ELSE NoteOrUndefined(Trim(CaptureOf(trimmed)), ScanReversed(earlier))

extractUserCompactionNote(msgs) == ScanReversed(UserMessagesOf(msgs))

\* An override that is returned as it was given: a mutant.
getUserCompactionNoteUntrimmed(instructions, msgs) ==
    IF instructions.type = "string" /\ Len(Trim(instructions.chars)) > 0
    THEN StringValue(instructions.chars)
    ELSE extractUserCompactionNote(msgs)

getUserCompactionNote(instructions, msgs) ==
    IF instructions.type = "string" /\ Len(Trim(instructions.chars)) > 0
    THEN StringValue(Trim(instructions.chars))
    ELSE extractUserCompactionNote(msgs)

\* The texts of the user's messages: the command with a note, in upper case,
\* bare, with white space only, with white space around it, with a note of
\* two lines, with a line break after it, with a hyphen after it, as the
\* start of a longer word, with a digit after it; an empty text.
UserTexts ==
    {<<"/", "c", "o", "m", "p", "a", "c", "t", " ", "a">>,
     <<"/", "C", "O", "M", "P", "A", "C", "T", " ", " ", "b">>,
     <<"/", "c", "o", "m", "p", "a", "c", "t">>,
     <<"/", "c", "o", "m", "p", "a", "c", "t", " ", "\t">>,
     <<" ", "/", "c", "o", "m", "p", "a", "c", "t", " ", "c", " ">>,
     <<"/", "c", "o", "m", "p", "a", "c", "t", " ", "a", "\n", "b">>,
     <<"/", "c", "o", "m", "p", "a", "c", "t", "\n", "e">>,
     <<"/", "c", "o", "m", "p", "a", "c", "t", "-", "f">>,
     <<"/", "c", "o", "m", "p", "a", "c", "t", "i", "o", "n", " ", "n">>,
     <<"/", "c", "o", "m", "p", "a", "c", "t", "2">>,
     <<>>}

\* The messages of a conversation: a user turn for each text, a user turn of
\* two text blocks, one whose text is no string, one with a tool call only,
\* and the command with a note from the assistant and in a tool result.
NoteMessages ==
    {UserTurn(<<TextContentBlock(StringValue(t))>>) : t \in UserTexts}
    \cup {UserTurn(<<TextContentBlock(StringValue(CompactCommand)),
                     TextContentBlock(StringValue(<<>>)),
                     TextContentBlock(StringValue(<<"d">>))>>),
          UserTurn(<<TextContentBlock(NumberPath)>>),
          UserTurn(<<ToolCallBlock(StringValue(<<"1">>), WriteName, StringValue(<<"p">>))>>),
          LlmMessage("assistant",
                     <<TextContentBlock(StringValue(<<"/", "c", "o", "m", "p", "a", "c", "t", " ", "z">>))>>,
                     NoString, FALSE),
          LlmMessage("toolResult",
                     <<TextContentBlock(StringValue(<<"/", "c", "o", "m", "p", "a", "c", "t", " ", "z">>))>>,
                     StringValue(<<"1">>), FALSE)}

\* event.customInstructions: absent, white space, a string with white space
\* around it, a value that is no string.
CustomInstructions ==
    {NoString, StringValue(<<" ">>), StringValue(<<" ", "o", " ">>), NumberPath}

InitNote ==
    /\ CONFIG = DEFAULT_CONFIG
    /\ items = <<>>
    /\ concurrency = 0
    /\ mapper = "tool"
    /\ PoolIdle
    /\ notifications = <<>>
    /\ LoopIdle
    /\ ToolIdle
    /\ modelRegistry = <<>>
    /\ sessionModel = NoModel
    /\ SelectIdle
    /\ llmMessages \in SeqsUpTo(NoteMessages, MaxMessages)
    /\ FileOpsIdle
    /\ filePath = <<>>
    /\ TempIdle
    /\ customInstructions \in CustomInstructions
    /\ NoteIdle
    /\ ContextIdle
    /\ event = NoEvent
    /\ HandlerIdle

\* extractUserCompactionNote(llmMessages) is called and returns.
ExtractUserCompactionNote ==
    /\ note.st = "idle"
    /\ note' = [st |-> "extracted", value |-> extractUserCompactionNote(llmMessages)]
    /\ UNCHANGED <<CONFIG, poolVars, notifications, loopVars, toolVars, selectVars,
                   fileOpsVars, tempVars, customInstructions, contextVars, handlerVars>>

\* getUserCompactionNote(customInstructions, llmMessages) is called and
\* returns.
GetUserCompactionNote ==
    /\ note.st = "idle"
    /\ note' = [st |-> "got",
                value |-> getUserCompactionNote(customInstructions, llmMessages)]
    /\ UNCHANGED <<CONFIG, poolVars, notifications, loopVars, toolVars, selectVars,
                   fileOpsVars, tempVars, customInstructions, contextVars, handlerVars>>

NextNote ==
    \/ ExtractUserCompactionNote
    \/ GetUserCompactionNote

SpecNote == InitNote /\ [][NextNote]_vars

-----------------------------------------------------------------------------
\* Properties of the user's note (checked under SpecNote).

\* The text of message k of the conversation, trimmed.
TrimmedText(k) == Trim(extractTextFromLlmMessageContent(llmMessages[k].content))

\* The user's messages whose trimmed text starts with the command.
Commands ==
    {k \in DOMAIN llmMessages :
        llmMessages[k].role = "user" /\ MatchesCompact(TrimmedText(k))}

MostRecent(S) == CHOOSE k \in S : \A j \in S : j <= k

\* What follows the command in message k, trimmed.
Remainder(k) ==
    Trim(SubSeq(TrimmedText(k), Len(CompactCommand) + 1, Len(TrimmedText(k))))

\* C25: with no command among the user's messages there is no note; else,
\* when something follows the command in the most recent of them, the note
\* is that remainder, trimmed, whatever the assistant's messages and the tool
\* results say.
C25_NoteOfMostRecentUserCommand ==
    note.st = "extracted" =>
        /\ Commands = {} => note.value = NoString
        /\ (Commands # {} /\ Remainder(MostRecent(Commands)) # <<>>) =>
               note.value = StringValue(Remainder(MostRecent(Commands)))

\* C25 witness: the note of two lines of the user's second message was
\* returned, after a first command of the user and before one of the
\* assistant.
C25_Witness ==
    /\ note.st = "extracted"
    /\ note.value = StringValue(<<"a", "\n", "b">>)
    /\ Len(llmMessages) = 3
    /\ Commands = {1, 2}
    /\ llmMessages[3].role = "assistant"
    /\ MatchesCompact(TrimmedText(3))

\* C26: when nothing but white space follows the command in the most recent
\* of the user's commands, there is no note, whatever the earlier ones hold.
C26_EmptyRemainderEndsTheSearch ==
    note.st = "extracted" =>
        ((Commands # {} /\ Remainder(MostRecent(Commands)) = <<>>) =>
             note.value = NoString)

\* C26 witness: no note was returned for a bare command that follows a
\* command with a note.
C26_Witness ==
    /\ note.st = "extracted"
    /\ note.value = NoString
    /\ Cardinality(Commands) = 2
    /\ Remainder(MostRecent(Commands)) = <<>>
    /\ \E k \in Commands : Remainder(k) # <<>>

\* C27: an override that is a string with more than white space is returned
\* trimmed, whatever the conversation; with any other override the note is
\* that of extractUserCompactionNote.
C27_OverrideOrExtractedNote ==
    note.st = "got" =>
        IF customInstructions.type = "string" /\ ~Blank(customInstructions.chars)
        THEN note.value = StringValue(Trim(customInstructions.chars))
        ELSE note.value = extractUserCompactionNote(llmMessages)

\* C27 witness: the override was returned, trimmed, for a conversation whose
\* most recent command has another note.
C27_Witness ==
    /\ note.st = "got"
    /\ customInstructions = StringValue(<<" ", "o", " ">>)
    /\ note.value = StringValue(<<"o">>)
    /\ Commands # {}
    /\ Remainder(MostRecent(Commands)) = <<"a">>

\* C27 witness of the other case: with an override of white space only the
\* note of the conversation was returned.
C27_WitnessBlankOverride ==
    /\ note.st = "got"
    /\ customInstructions = StringValue(<<" ">>)
    /\ note.value = StringValue(<<"a">>)

-----------------------------------------------------------------------------
\* The session_before_compact handler (MAIN EXTENSION section): SpecCompact.
\* handleCompaction awaits selectCompactionModel and runAgentLoop; the steps
\* of these two are the actions of SpecSelect and of Spec.

\* What the handler returns with a summary.
CompactionResult(summary) ==
    [compaction |-> [summary |-> summary,
                     firstKeptEntryId |-> event.firstKeptEntryId,
                     tokensBefore |-> event.tokensBefore]]

\* ctx.ui.notify("No model available for compaction", "warning")
NoModelNotification ==
    [level |-> "warning", name |-> "No model available for compaction",
     preview |-> <<>>, suffix |-> <<>>]

\* ctx.ui.notify(`Compacting ${allMessages.length} messages with
\* ${model.provider}/${model.id}`, "info")
CompactingNotification(count, model) ==
    [level |-> "info", name |-> "Compacting", preview |-> <<count, model.name>>,
     suffix |-> <<>>]

\* notifyFn(`Compaction failed: ${message}`, "warning")
FailedNotification(reason) ==
    [level |-> "warning", name |-> "Compaction failed", preview |-> <<reason.error>>,
     suffix |-> <<>>]

\* A test that takes a summary of the minimum length for too short: a mutant.
SummaryAtMostMinimum(summary) ==
    \/ summary.type # "string"
    \/ summary.chars = <<>>
    \/ Num(Len(summary.chars)) <= CONFIG.minSummaryChars

\* !summary || summary.length < CONFIG.minSummaryChars
SummaryTooShort(summary) ==
    \/ summary.type # "string"
    \/ summary.chars = <<>>
    \/ Num(Len(summary.chars)) < CONFIG.minSummaryChars

\* A handler that warns whatever the signal: a mutant.
SignalIgnored == TRUE

\* if (!signal.aborted) in handleCompactionError.
SignalNotAborted == ~signal

\* The conversation of an event that has messages: a command of the user
\* with a note, a write and its result.
CompactConversation ==
    <<UserTurn(<<TextContentBlock(StringValue(<<"/", "c", "o", "m", "p", "a", "c", "t", " ", "a">>))>>),
      AssistantTurn(<<ToolCallBlock(StringValue(<<"1">>), WriteName,
                                    StringValue(<<"p">>))>>),
      ToolResultTurn(StringValue(<<"1">>), FALSE)>>

\* The values of minSummaryChars tried in config.json: absent, 3, 3.5.
RawMinSummaryChars == {NoValue, NumberValue(6), NumberValue(7)}

CompactParsedConfigs ==
    {[EmptyParsed EXCEPT !.minSummaryChars = c] : c \in RawMinSummaryChars}

InitCompact ==
    /\ CONFIG \in {loadConfig(parsed) : parsed \in CompactParsedConfigs}
    /\ items = <<>>
    /\ concurrency = 0
    /\ mapper = "tool"
    /\ PoolIdle
    /\ notifications = <<>>
    /\ LoopIdle
    /\ ToolIdle
    /\ sessionModel \in {NoModel} \cup SessionModels
    /\ modelRegistry \in {r \in Registries(sessionModel) : r.models = <<>>}
    /\ SelectIdle
    /\ llmMessages \in {<<>>, CompactConversation}
    /\ FileOpsIdle
    /\ filePath = <<>>
    /\ TempIdle
    /\ customInstructions \in {NoString, StringValue(<<" ", "o", " ">>)}
    /\ NoteIdle
    /\ ContextIdle
    /\ event = [NoEvent EXCEPT !.messages = Len(llmMessages),
                               !.customInstructions = customInstructions]
    /\ HandlerIdle

\* The handler is called: it returns when there is no message, else it calls
\* selectCompactionModel and awaits it.
HandleCompaction ==
    /\ handler.pc = "idle"
    /\ IF event.messages = 0
       THEN /\ handler' = [pc |-> "returned", returned |-> Undefined]
            /\ UNCHANGED selection
       ELSE /\ handler' = [pc |-> "Selecting", returned |-> Undefined]
            /\ selection' = SelectFrom(1, <<>>)
    /\ UNCHANGED <<CONFIG, poolVars, notifications, loopVars, toolVars, modelRegistry,
                   sessionModel, fileOpsVars, tempVars, noteVars, contextVars, event>>

\* await selectCompactionModel(...) returns: without a selection the handler
\* warns and returns; with one it announces the compaction, builds the
\* prompts and calls runAgentLoop, to await it.
SelectionReturns ==
    /\ handler.pc = "Selecting"
    /\ selection.st = "fulfilled"
    /\ IF selection.value.null
       THEN /\ notifications' = Append(notifications, NoModelNotification)
            /\ handler' = [pc |-> "returned", returned |-> Undefined]
            /\ UNCHANGED <<loopVars, note, fileOpsContext>>
       ELSE /\ notifications' = Append(notifications,
                   CompactingNotification(event.messages, selection.value.model))
            /\ note' = [st |-> "got",
                        value |-> getUserCompactionNote(event.customInstructions,
                                                        llmMessages)]
            /\ fileOpsContext' = [st |-> "returned",
                                  text |-> buildFileOpsContext(llmMessages)]
            /\ pc = "idle"
            /\ messages' = <<>>
            /\ trajectory' = <<>>
            /\ Requesting(<<>>)
            /\ handler' = [pc |-> "Loop", returned |-> Undefined]
            /\ UNCHANGED <<signal, toolCalls, responses>>
    /\ UNCHANGED <<CONFIG, poolVars, toolVars, selectVars, fileOpsVars, tempVars,
                   customInstructions, event>>

\* await runAgentLoop(...) returns: the handler returns nothing when the
\* signal is set or the summary is too short, else the compaction.
LoopReturns ==
    /\ handler.pc = "Loop"
    /\ pc \in {"Done", "Aborted"}
    /\ handler' = [pc |-> "returned",
                   returned |-> IF signal THEN Undefined
                                ELSE IF SummaryTooShort(outcome.value) THEN Undefined
                                ELSE CompactionResult(outcome.value.chars)]
    /\ UNCHANGED <<CONFIG, poolVars, notifications, loopVars, toolVars, selectVars,
                   fileOpsVars, tempVars, noteVars, contextVars, event>>

\* await runAgentLoop(...) throws: handleCompactionError warns the user
\* unless the signal is set, and the handler returns nothing.
LoopThrows ==
    /\ handler.pc = "Loop"
    /\ pc = "Failed"
    /\ notifications' = IF SignalNotAborted
                        THEN Append(notifications, FailedNotification(outcome.reason))
                        ELSE notifications
    /\ handler' = [pc |-> "returned", returned |-> Undefined]
    /\ UNCHANGED <<CONFIG, poolVars, loopVars, toolVars, selectVars, fileOpsVars,
                   tempVars, noteVars, contextVars, event>>

NextCompact ==
    \/ HandleCompaction
    \/ GetApiKeyReturns
    \/ SelectionReturns
    \/ CompleteReturns
    \/ CompleteThrows
    \/ ToolCallSettles
    \/ MapReturns
    \/ MapThrows
    \/ ExecutingReturns
    \/ ExecutingThrows
    \/ Abort
    \/ LoopReturns
    \/ LoopThrows

SpecCompact == InitCompact /\ [][NextCompact]_vars

-----------------------------------------------------------------------------
\* Properties of the handler (checked under SpecCompact).

\* C28: the handler returns a compaction only when the loop ended with a
\* summary of at least minSummaryChars characters and the signal was not set
\* when it returned, the compaction holds that summary, and in every other
\* outcome the handler returns nothing.
C28_CompactionOnlyForAcceptedSummary ==
    handler.pc = "returned" =>
        IF /\ pc = "Done"
           /\ ~signal
           /\ outcome.value.type = "string"
           /\ Len(outcome.value.chars) > 0
           /\ 2 * Len(outcome.value.chars) >= CONFIG.minSummaryChars
        THEN handler.returned =
                 [compaction |-> [summary |-> SummaryOf(responses[Len(responses)]),
                                  firstKeptEntryId |-> event.firstKeptEntryId,
                                  tokensBefore |-> event.tokensBefore]]
        ELSE handler.returned = Undefined

\* C28 witness: the handler returned a compaction with a summary of exactly
\* minSummaryChars characters.
C28_Witness ==
    /\ handler.pc = "returned"
    /\ handler.returned # Undefined
    /\ 2 * Len(handler.returned.compaction.summary) = CONFIG.minSummaryChars

\* C28 witness of a refusal: the handler returned nothing for a summary that
\* is half a character short.
C28_WitnessTooShort ==
    /\ handler.pc = "returned"
    /\ handler.returned = Undefined
    /\ pc = "Done"
    /\ ~signal
    /\ 2 * Len(outcome.value.chars) + 1 = CONFIG.minSummaryChars

\* The handler has dealt with a completion request that failed.
CompletionFailureHandled ==
    /\ handler.pc = "returned"
    /\ pc = "Failed"
    /\ outcome.reason.error = "completion"

FailureWarnings ==
    {n \in DOMAIN notifications :
        /\ notifications[n].level = "warning"
        /\ notifications[n].name = "Compaction failed"}

-----------------------------------------------------------------------------
\* The transcript of runAgentLoop (checked under Spec).

\* The transcript request n carried is that of request n - 1 with the
\* assistant turn of response n - 1 and one tool-result turn for each of its
\* tool calls, in their order, after it.
ExtendsByOneTurn(n) ==
    LET previous == requests[n - 1].messages
        current == requests[n].messages
        tcs == ToolCallsOf(responses[n - 1])
    IN /\ Len(current) = Len(previous) + 1 + Len(tcs)
       /\ SubSeq(current, 1, Len(previous)) = previous
       /\ current[Len(previous) + 1] =
              [role |-> "assistant", content |-> responses[n - 1]]
       /\ \A j \in DOMAIN tcs :
              /\ current[Len(previous) + 1 + j].role = "toolResult"
              /\ current[Len(previous) + 1 + j].toolCallId = tcs[j].id
              /\ current[Len(previous) + 1 + j].toolName = tcs[j].name

\* C31: the first completion request carries an empty transcript, each later
\* one that of the request before it extended by one assistant turn and that
\* turn's tool-result turns, and no step removes, reorders or rewrites a
\* message of the transcript.
C31_TranscriptAppendOnly ==
    /\ [](/\ requests # <<>> => requests[1].messages = <<>>
          /\ \A n \in 2..Len(requests) : ExtendsByOneTurn(n))
    /\ [][/\ Len(messages) <= Len(messages')
          /\ SubSeq(messages', 1, Len(messages)) = messages]_vars

\* C31 witness: the second request carries the assistant turn of the first
\* response and the tool-result turns of its two tool calls.
C31_Witness ==
    /\ Len(requests) = 2
    /\ Len(requests[2].messages) = 3
    /\ requests[2].messages[2].toolCallId # requests[2].messages[3].toolCallId

-----------------------------------------------------------------------------
\* The index of the tool calls (checked under SpecFileOps).

\* What the index holds for the block at position x.
IndexEntry(x) ==
    [name |-> llmMessages[x[1]].content[x[2]].name.chars,
     args |-> IF llmMessages[x[1]].content[x[2]].arguments.type = "undefined"
              THEN [type |-> "object", path |-> NoString]
              ELSE llmMessages[x[1]].content[x[2]].arguments]

\* C32: the index holds the ids of the tool-call blocks whose id and name are
\* strings and no other, each with the name and arguments of the last block
\* of the conversation that has the id; and a result that did not fail is
\* resolved against that block, so that its path is reported when the block
\* is a write or edit, wherever the block stands.
C32_IndexIsLastWriteWins ==
    fileOps.st # "idle" =>
        LET index == extractToolCallsFromMessages(llmMessages)
        IN /\ DOMAIN index =
                  {llmMessages[x[1]].content[x[2]].id.chars : x \in IndexedBlocks}
           /\ \A id \in DOMAIN index :
                  \A x \in ResolvedBlocks(StringValue(id)) : index[id] = IndexEntry(x)
           /\ \A r \in DOMAIN llmMessages :
                  (/\ llmMessages[r].role = "toolResult"
                   /\ ~llmMessages[r].isError
                   /\ llmMessages[r].toolCallId.type = "string") =>
                      \A x \in ResolvedBlocks(llmMessages[r].toolCallId) :
                          LET entry == IndexEntry(x)
                          IN IF /\ entry.name \in {WriteName, EditName}
                                /\ entry.args.path.type = "string"
                                /\ Trim(entry.args.path.chars) # <<>>
                             THEN Trim(entry.args.path.chars)
                                      \in Range(fileOps.modifiedFiles)
                             ELSE \A path \in Range(fileOps.modifiedFiles) :
                                      r \notin QualifyingResults(path)

\* C32 witness: a result that follows a read is resolved against the write
\* with the same id that stands after it, and the path of the write is
\* reported.
C32_Witness ==
    /\ fileOps.st = "returned"
    /\ Len(llmMessages) = 3
    /\ llmMessages[1] = AssistantTurn(<<ToolCallBlock(StringValue(<<"1">>), ReadName,
                                                      StringValue(<<"p">>))>>)
    /\ llmMessages[2] = ToolResultTurn(StringValue(<<"1">>), FALSE)
    /\ llmMessages[3] = AssistantTurn(<<ToolCallBlock(StringValue(<<"1">>), WriteName,
                                                      StringValue(<<" ", "p">>))>>)
    /\ fileOps.modifiedFiles = <<<<"p">>>>

-----------------------------------------------------------------------------
\* The deleted paths (checked under SpecFileOps).

\* The paths that some tool call of the conversation names, trimmed.
NamedPaths ==
    {Trim(llmMessages[x[1]].content[x[2]].arguments.path.chars) :
        x \in {y \in IndexedBlocks :
                  llmMessages[y[1]].content[y[2]].arguments.path.type = "string"}}
    \ {<<>>}

\* C35: every report has no deleted path, so no path with a qualifying
\* result is kept out of modifiedFiles, and the context shows the marker
\* alone under the heading of the deleted paths.
C35_NoDeletedPaths ==
    /\ fileOps.st # "idle" =>
           /\ fileOps.deletedFiles = <<>>
           /\ \A path \in NamedPaths :
                  QualifyingResults(path) # {} => path \in Range(fileOps.modifiedFiles)
    /\ fileOpsContext.st = "returned" => Section(DeletedHeading) = <<NoneDetected>>

\* C35 witness: a context built from a conversation with a write and an edit
\* that passed shows no deleted path, and both paths are reported.
C35_Witness ==
    /\ fileOpsContext.st = "returned"
    /\ fileOps.st = "built"
    /\ fileOps.deletedFiles = <<>>
    /\ Cardinality(NamedPaths) = 2
    /\ Range(fileOps.modifiedFiles) = NamedPaths
    /\ Section(DeletedHeading) = <<NoneDetected>>

-----------------------------------------------------------------------------
\* The order and the progress of mapWithConcurrency (checked under SpecMap,
\* the liveness under SpecMapLive).

\* C34: the invocations start in ascending index order (the k-th started is
\* that of index k - 1), the cursor never goes back, and under an effective
\* bound of 1 an invocation starts only after the one before it has settled.
C34_StartsInIndexOrder ==
    /\ [](/\ \A k \in DOMAIN calls : calls[k].index = k - 1
          /\ (Called /\ effectiveConcurrency = 1) =>
                 \A k \in DOMAIN calls : k > 1 => calls[k - 1].st # "pending")
    /\ [][mwc.st # "idle" => nextIndex' >= nextIndex]_vars

\* C34 witness: under an effective bound of 1 the third invocation is in
\* flight, the two before it settled.
C34_Witness ==
    /\ effectiveConcurrency = 1
    /\ Len(calls) = 3
    /\ calls[3].st = "pending"
    /\ calls[1].st = "fulfilled"
    /\ calls[2].st = "fulfilled"

\* Every worker has ended.
Quiescent ==
    Called /\ \A w \in DOMAIN workers : workers[w].st \in {"fulfilled", "rejected"}

FailedCalls == {k \in DOMAIN calls : calls[k].st \in {"rejected", "threw"}}

\* C36: a worker whose invocation fulfils claims the next index, if there is
\* one, whether or not another invocation has failed and the call has
\* rejected; so, with at least two workers and one failure, every index has
\* had its invocation once the workers have ended.
C36_FailureStopsOneWorkerOnly ==
    /\ []((Quiescent /\ Len(workers) >= 2 /\ Cardinality(FailedCalls) = 1) =>
              {calls[k].index : k \in DOMAIN calls} = 0..(Len(items) - 1))
    /\ [][\A k \in DOMAIN calls :
              (calls[k].st = "pending" /\ calls'[k].st = "fulfilled"
               /\ nextIndex < Len(items)) =>
                  /\ Len(calls') = Len(calls) + 1
                  /\ calls'[Len(calls')].index = nextIndex
                  /\ calls'[Len(calls')].worker = calls[k].worker]_vars

\* C36 witness: the call has rejected with the failure of the first
\* invocation, and the other worker went on to the last index.
C36_Witness ==
    /\ mwc.st = "rejected"
    /\ Quiescent
    /\ Len(items) = 3
    /\ Len(workers) = 2
    /\ FailedCalls = {1}
    /\ calls[3].worker = 2
    /\ calls[3].st = "fulfilled"

\* C38: with every invocation settling in the end and every continuation
\* run, a call of mapWithConcurrency settles, and when it returns the mapper
\* has been invoked once per item.
C38_MapSettles ==
    /\ Called ~> (mwc.st \in {"fulfilled", "rejected"})
    /\ [](mwc.st = "fulfilled" => Len(calls) = Len(items))

\* C38 witness: a call with three items and three workers returned after
\* three invocations.
C38_Witness ==
    /\ mwc.st = "fulfilled"
    /\ Len(items) = 3
    /\ Len(workers) = 3
    /\ Len(calls) = 3

-----------------------------------------------------------------------------
\* The credential requests of selectCompactionModel (checked under
\* SpecSelect).

\* The registry models of the candidates 1..j that have one, in listed order.
RECURSIVE MatchesUpTo(_)
MatchesUpTo(j) ==
    IF j = 0 THEN <<>>
    ELSE MatchesUpTo(j - 1)
             \o (IF Matching(j) = {} THEN <<>> ELSE <<CHOOSE m \in Matching(j) : TRUE>>)

\* The requests a whole call makes: one per candidate with a registry model
\* up to the first usable one, then one for the session model when no
\* candidate is usable.
RequestsOfACall ==
    IF UsableCandidates # {}
    THEN MatchesUpTo(MinOf(UsableCandidates))
    ELSE MatchesUpTo(Len(Candidates))
             \o (IF sessionModel = NoModel THEN <<>> ELSE <<sessionModel>>)

\* C39: the models getApiKey has been asked about are, in order, the registry
\* models of the candidates that have one, up to the winning candidate and
\* none after it, then the session model if every candidate was rejected; a
\* step makes at most one request, and only when none is awaited or the one
\* awaited has returned in that step.
C39_CredentialsAskedInListedOrder ==
    /\ [](/\ Len(selection.asked) <= Len(RequestsOfACall)
          /\ SubSeq(RequestsOfACall, 1, Len(selection.asked)) = selection.asked
          /\ selection.st = "fulfilled" => selection.asked = RequestsOfACall
          /\ selection.st = "awaiting" => selection.asked # <<>>)
    /\ [][/\ Len(selection.asked') <= Len(selection.asked) + 1
          /\ SubSeq(selection.asked', 1, Len(selection.asked)) = selection.asked
          /\ Len(selection.asked') = Len(selection.asked) + 1 =>
                 selection'.st = "awaiting"]_vars

\* C39 witness: the first candidate has no registry model and was not asked
\* about, the second has one without a credential, and the session model was
\* asked about last.
C39_Witness ==
    /\ selection.st = "fulfilled"
    /\ Len(Candidates) = 2
    /\ Matching(1) = {}
    /\ Matching(2) # {}
    /\ sessionModel # NoModel
    /\ Len(selection.asked) = 2
    /\ selection.asked[1] \in Matching(2)
    /\ selection.asked[2] = sessionModel

\* C39 second witness: the first candidate won and the second, which has a
\* registry model too, was not asked about.
C39_WitnessNoneAfterTheWinner ==
    /\ selection.st = "fulfilled"
    /\ Len(Candidates) = 2
    /\ Usable(1)
    /\ Matching(2) # {}
    /\ Matching(2) # Matching(1)
    /\ Len(selection.asked) = 1

-----------------------------------------------------------------------------
\* The word boundary after the command (checked under SpecNote).

\* Text t is "/compact" in any case followed by the end of the text, by
\* white space or by another character that is not a letter, a digit or "_".
CommandThenBoundary(t) ==
    /\ Len(t) >= Len(CompactCommand)
    /\ ToLowerCase(SubSeq(t, 1, Len(CompactCommand))) = CompactCommand
    /\ \/ Len(t) = Len(CompactCommand)
       \/ t[Len(CompactCommand) + 1] \in {" ", "\t", "\n"}
       \/ t[Len(CompactCommand) + 1] \notin WordCharacters

\* The user's messages that are the command followed by a boundary.
BoundedCommands ==
    {k \in DOMAIN llmMessages :
        llmMessages[k].role = "user" /\ CommandThenBoundary(TrimmedText(k))}

\* Text t starts with the command and goes on with a character of a word.
LongerWord(t) ==
    /\ Len(t) > Len(CompactCommand)
    /\ ToLowerCase(SubSeq(t, 1, Len(CompactCommand))) = CompactCommand
    /\ t[Len(CompactCommand) + 1] \in WordCharacters

\* C40: the note is that of the most recent user message that is the command
\* followed by a boundary; a user message that goes on with a character of a
\* word ("/compaction n", "/compact2") is passed over for the older ones.
C40_CommandNeedsWordBoundary ==
    note.st = "extracted" =>
        /\ note.value =
               (IF BoundedCommands = {}
                    \/ Remainder(MostRecent(BoundedCommands)) = <<>>
                THEN NoString
                ELSE StringValue(Remainder(MostRecent(BoundedCommands))))
        /\ \A k \in DOMAIN llmMessages :
               LongerWord(TrimmedText(k)) => k \notin BoundedCommands

\* C40 witness: the note "-f" of the user's first message, a command
\* followed by a hyphen, was returned after "/compaction n" and "/compact2"
\* were passed over.
C40_Witness ==
    /\ note.st = "extracted"
    /\ Len(llmMessages) = 3
    /\ \A k \in 1..3 : llmMessages[k].role = "user"
    /\ TrimmedText(1) = <<"/", "c", "o", "m", "p", "a", "c", "t", "-", "f">>
    /\ TrimmedText(2) =
           <<"/", "c", "o", "m", "p", "a", "c", "t", "i", "o", "n", " ", "n">>
    /\ TrimmedText(3) = <<"/", "c", "o", "m", "p", "a", "c", "t", "2">>
    /\ note.value = StringValue(<<"-", "f">>)

-----------------------------------------------------------------------------
\* The end of runAgentLoop once aborted (checked under SpecLive).

Terminated == pc \in {"Aborted", "Done", "Failed"}

\* C37: with the signal set and every request and tool call under way
\* settling in the end, a running loop terminates; from the setting of the
\* signal it sends no request, and starts no tool batch but that of the
\* response to the request under way.
C37_AbortedLoopTerminates ==
    /\ (signal /\ pc # "idle") ~> Terminated
    /\ [][signal =>
              /\ requests' = requests
              /\ pc = "Executing" => pc' \in {"Executing", "Aborted", "Failed"}
              /\ (pc # "Executing" /\ pc' = "Executing") => pc = "Completing"]_vars

\* C37 witness: the signal was set after the only request was sent, and the
\* loop returned undefined after the tool batch of its response.
C37_Witness ==
    /\ signal
    /\ pc = "Aborted"
    /\ Len(requests) = 1
    /\ ~requests[1].aborted
    /\ Len(toolCalls) = 2
    /\ Len(messages) = 3
    /\ mwc.st = "fulfilled"

-----------------------------------------------------------------------------
\* The file snapshot (checked under SpecSnapshot).

\* C33: bashFiles holds what it held when it was made, whatever tool calls
\* have run; every tool call's shell was built with those files, and a tool
\* call that reads the conversation reads the original, also when a tool
\* call that overwrote or removed it ran at the same time or settled before.
C33_SnapshotUnchangedByToolCalls ==
    /\ [](/\ bashFiles = OriginalFiles
          /\ \A k \in DOMAIN shells :
                /\ shells[k].files = OriginalFiles
                /\ (shells[k].st = "settled" /\ shells[k].command = "cat") =>
                       shells[k].stdout = ConversationJson)
    /\ [][bashFiles' = bashFiles]_vars

\* C33 witness: a tool call that overwrites the conversation and one that
\* removes it ran at the same time, and a third, started after both had
\* settled, read the original conversation.
C33_Witness ==
    /\ Len(shells) = 3
    /\ shells[1].command = "overwrite"
    /\ shells[2].command = "rm"
    /\ shells[2].settledBefore = {}
    /\ shells[3].command = "cat"
    /\ shells[3].settledBefore = {1, 2}
    /\ shells[3].st = "settled"
    /\ shells[3].stdout = ConversationJson
    /\ shells[1].fs[ConversationPath] = <<"x">>

====
